---- MODULE Spec2Model ----
(***************************************************************************)
(* Verification model of the Email_Assistant summarization-caching and     *)
(* idempotent-sync engine.                                                 *)
(*                                                                         *)
(*  - integrations/google_sheets.py : upsert_summaries and its helpers     *)
(*  - Summarizer/groq_summarizer.py : GroqSummarizer (TTL cache, thread    *)
(*                                    and contact summaries)               *)
(*  - providers/mcp_summaries_provider.py : McpSummariesProvider           *)
(*                                    (merge of fetched and known threads) *)
(*                                                                         *)
(* Python strings are TLA+ strings; a JSON text is the sequence of its     *)
(* tokens; a number written to a cell is the one-element sequence holding  *)
(* it; a date string is a record [fmt, t] (fmt = "iso" for an ISO-8601     *)
(* text of instant t, "bad" for a text no format parses, "empty" for "").  *)
(* Confidences are integers in thousandths (0.25 is 250).                  *)
(***************************************************************************)
EXTENDS Integers, Sequences, FiniteSets, TLC

VARIABLES
    sheet,        \* the worksheet's data rows (cells as written), in order
    now,          \* the wall clock (time.time() / datetime.now())
    upsertCalls,  \* number of upsert_summaries calls made so far
    lastUpsert,   \* what the last upsert_summaries call did (observation)
    cache,        \* GroqSummarizer.cache: cache key -> entry
    modelUp,      \* whether the completion API answers (else it raises)
    lastOp,       \* the last call on the summarizer and what it did
    mailbox,      \* the provider's mailbox: thread id -> messages, oldest first
    records,      \* the loop's cache["summaries"]: contact key -> record
    drafts,       \* the reply queue's drafts, oldest first
    lastCycle,    \* what the last cycle of the loop did (observation)
    files,        \* Summaries/summaries_cache.json and its .corrupt sibling
    started       \* which components of the running process are constructed

sheetVars == <<sheet, upsertCalls, lastUpsert>>

cacheVars == <<cache, modelUp, lastOp>>

aggVars == <<mailbox, records, drafts, lastCycle>>

fileVars == <<files, started>>

vars ==
    <<sheet, now, upsertCalls, lastUpsert, cache, modelUp, lastOp,
      mailbox, records, drafts, lastCycle, files, started>>

\* the content of a path: no file, a JSON document, or text that is no JSON
NoFile == [kind |-> "none"]

JsonFile(data) == [kind |-> "json", data |-> data]

Garbage == [kind |-> "garbage"]

\* no cache file on disk and no component constructed
FilesIdle ==
    /\ files = [cache |-> NoFile, corrupt |-> NoFile]
    /\ started = {}

(***************************************************************************)
(* Bounds                                                                  *)
(***************************************************************************)
MaxUpserts == 2
MaxNow == 3

(***************************************************************************)
(* JSON encoding (json.dumps) of a threads list.  A dict is the sequence   *)
(* of its <<key, value>> pairs in insertion order.                         *)
(***************************************************************************)
KeyRank(k) ==
    CASE k = "id" -> 1
      [] k = "importance" -> 2
      [] k = "preview" -> 3
      [] k = "subject" -> 4
      [] k = "summary" -> 5
      [] OTHER -> 6

RECURSIVE InsertByKey(_, _)
InsertByKey(p, s) ==
    IF s = <<>> THEN <<p>>
    ELSE IF KeyRank(p[1]) < KeyRank(Head(s)[1]) THEN <<p>> \o s
    ELSE <<Head(s)>> \o InsertByKey(p, Tail(s))

RECURSIVE SortKeys(_)
SortKeys(d) ==
    IF d = <<>> THEN <<>>
    ELSE InsertByKey(d[Len(d)], SortKeys(SubSeq(d, 1, Len(d) - 1)))

RECURSIVE DumpsPairs(_)
DumpsPairs(d) ==
    IF d = <<>> THEN <<>>
    ELSE <<Head(d)[1], ":", Head(d)[2]>>
         \o (IF Len(d) > 1 THEN <<",">> ELSE <<>>)
         \o DumpsPairs(Tail(d))

DumpsDict(d, sort_keys) ==
    <<"{">> \o DumpsPairs(IF sort_keys THEN SortKeys(d) ELSE d) \o <<"}">>

RECURSIVE DumpsItems(_, _)
DumpsItems(l, sort_keys) ==
    IF l = <<>> THEN <<>>
    ELSE DumpsDict(Head(l), sort_keys)
         \o (IF Len(l) > 1 THEN <<",">> ELSE <<>>)
         \o DumpsItems(Tail(l), sort_keys)

Dumps(l, sort_keys) == <<"[">> \o DumpsItems(l, sort_keys) \o <<"]">>

(***************************************************************************)
(* Python values of the "threads" column: a list of dicts, or a str.       *)
(***************************************************************************)
PyList(l) == [tag |-> "list", items |-> l, text |-> <<>>]

PyStr(s) == [tag |-> "str", items |-> <<>>, text |-> s]

\* str() of a number, and gspread's numericise of a cell holding one
StrNum(n) == <<n>>

Numericise(c) == IF c = <<>> THEN -1 ELSE c[1]

IsoDate(t) == [fmt |-> "iso", t |-> t]

EmptyDate == [fmt |-> "empty", t |-> 0]

BadDate == [fmt |-> "bad", t |-> 0]

\* role_confidence of a row that carries none (None or "")
NoNumber == -1

Lower(s) ==
    CASE s = "GMAIL:A@X.COM" -> "gmail:a@x.com"
      [] s = "GMAIL:C@X.COM" -> "gmail:c@x.com"
      [] s = "A@X.COM" -> "a@x.com"
      [] s = "GMAIL" -> "gmail"
      [] s = "High" -> "high"
      [] s = "Medium" -> "medium"
      [] s = "Low" -> "low"
      [] OTHER -> s

(***************************************************************************)
(* integrations/google_sheets.py                                           *)
(***************************************************************************)
HEADER ==
    <<"id", "email", "source", "role", "role_confidence", "contact_summary",
      "threads", "last_summary">>

\* datetime or None (None is -1, below every instant)
ParseDate(d) == IF d.fmt = "iso" THEN d.t ELSE -1

NormalizeRowPayload(row, t) ==
    LET email  == row.email
        source == IF row.source = "" THEN "unknown" ELSE row.source
        rid    == IF row.id = "" /\ email # ""
                  THEN source \o ":" \o email
                  ELSE row.id
    IN  [ id              |-> rid,
          email           |-> email,
          source          |-> source,
          role            |-> IF row.role = "" THEN "Unknown" ELSE row.role,
          role_confidence |-> IF row.role_confidence = NoNumber THEN 0
                              ELSE row.role_confidence,
          contact_summary |-> row.contact_summary,
          threads         |-> row.threads,
          last_summary    |-> IF row.last_summary.fmt = "empty" THEN IsoDate(t)
                              ELSE row.last_summary ]

SerializeValue(v) ==
    IF v.tag = "list" THEN Dumps(v.items, FALSE) ELSE v.text

BuildUniqueKey(row_id, email, source) ==
    LET rid == Lower(row_id)
        em  == Lower(email)
        src == Lower(source)
    IN  IF rid # "" THEN rid
        ELSE IF src # "" /\ em # "" THEN src \o ":" \o em
        ELSE em

StableJson(v) ==
    IF v.tag = "list" THEN Dumps(v.items, TRUE) ELSE v.text

ShouldUpdate(existing, incoming) ==
    \/ existing.contact_summary # incoming.contact_summary
    \/ existing.role # incoming.role
    \/ StrNum(existing.role_confidence) # StrNum(incoming.role_confidence)
    \/ StableJson(existing.threads) # StableJson(incoming.threads)

\* ws.get_all_records(): one dict per data row, numeric cells numericised
GetAllRecords(cells) ==
    [ i \in 1..Len(cells) |->
        [ id              |-> cells[i].id,
          email           |-> cells[i].email,
          source          |-> cells[i].source,
          role            |-> cells[i].role,
          role_confidence |-> Numericise(cells[i].role_confidence),
          contact_summary |-> cells[i].contact_summary,
          threads         |-> PyStr(cells[i].threads),
          last_summary    |-> cells[i].last_summary ] ]

\* existing_lookup is an insertion-ordered dict: a sequence of [key, row]
RECURSIVE IndexOfKey(_, _)
IndexOfKey(lk, key) ==
    IF lk = <<>> THEN 0
    ELSE IF lk[Len(lk)].key = key THEN Len(lk)
    ELSE IndexOfKey(SubSeq(lk, 1, Len(lk) - 1), key)

PutKey(lk, key, row) ==
    LET i == IndexOfKey(lk, key)
    IN  IF i = 0 THEN Append(lk, [key |-> key, row |-> row])
        ELSE [lk EXCEPT ![i] = [key |-> key, row |-> row]]

RowKey(n) == BuildUniqueKey(n.id, n.email, n.source)

RECURSIVE LoadExisting(_, _, _)
LoadExisting(recs, lk, t) ==
    IF recs = <<>> THEN lk
    ELSE LET n   == NormalizeRowPayload(Head(recs), t)
             key == RowKey(n)
         IN  LoadExisting(Tail(recs),
                          IF key # "" THEN PutKey(lk, key, n) ELSE lk, t)

\* MergeOne with the freshness timestamp bumped on every staged update
MergeOne_AlwaysBump(st, row, t) ==
    LET n   == NormalizeRowPayload(row, t)
        key == RowKey(n)
        i   == IndexOfKey(st.lk, key)
    IN  IF key = "" THEN st
        ELSE IF i = 0
        THEN [st EXCEPT !.lk = PutKey(st.lk, key, n), !.inserts = @ + 1]
        ELSE LET ex == st.lk[i].row
             IN  IF ShouldUpdate(ex, n)
                 THEN [st EXCEPT
                          !.lk = PutKey(st.lk, key,
                                        [n EXCEPT !.last_summary = IsoDate(t)]),
                          !.updates = @ + 1]
                 ELSE st

\* the merge loop over new_rows; st = [lk, inserts, updates]
MergeOne(st, row, t) ==
    LET n   == NormalizeRowPayload(row, t)
        key == RowKey(n)
        i   == IndexOfKey(st.lk, key)
    IN  IF key = "" THEN st
        ELSE IF i = 0
        THEN [st EXCEPT !.lk = PutKey(st.lk, key, n), !.inserts = @ + 1]
        ELSE LET ex == st.lk[i].row
             IN  IF ShouldUpdate(ex, n)
                 THEN LET m == IF ex.contact_summary # n.contact_summary
                               THEN [n EXCEPT !.last_summary = IsoDate(t)]
                               ELSE [n EXCEPT !.last_summary = ex.last_summary]
                      IN  [st EXCEPT !.lk = PutKey(st.lk, key, m),
                                     !.updates = @ + 1]
                 ELSE st

RECURSIVE MergeRows(_, _, _)
MergeRows(rows, st, t) ==
    IF rows = <<>> THEN st
    ELSE MergeRows(Tail(rows), MergeOne(st, Head(rows), t), t)

\* _sort_key with the order of the instants reversed
SortKeyOf_Reversed(row) == 0 - ParseDate(row.last_summary)

SortKeyOf(row) == ParseDate(row.last_summary)

\* sorted(..., key=_sort_key, reverse=True): stable, latest first
RECURSIVE InsertDesc(_, _)
InsertDesc(r, s) ==
    IF s = <<>> THEN <<r>>
    ELSE IF SortKeyOf(Head(s)) < SortKeyOf(r) THEN <<r>> \o s
    ELSE <<Head(s)>> \o InsertDesc(r, Tail(s))

RECURSIVE SortRows(_)
SortRows(s) ==
    IF s = <<>> THEN <<>>
    ELSE InsertDesc(s[Len(s)], SortRows(SubSeq(s, 1, Len(s) - 1)))

SerializeRow(r) ==
    [ id              |-> r.id,
      email           |-> r.email,
      source          |-> r.source,
      role            |-> r.role,
      role_confidence |-> StrNum(r.role_confidence),
      contact_summary |-> r.contact_summary,
      threads         |-> SerializeValue(r.threads),
      last_summary    |-> r.last_summary ]

\* ws.update("A1", matrix): the values cover the range of the matrix and
\* leave the rows below it as they were.  The matrix is padded with blank
\* rows up to the number of records read (extra_rows); blank rows at the
\* end of a worksheet are no records.
WsUpdate(cells, matrix, n_read) ==
    LET covered == IF Len(matrix) > n_read THEN Len(matrix) ELSE n_read
    IN  matrix \o SubSeq(cells, covered + 1, Len(cells))

\* The whole of upsert_summaries on the worksheet `cells` at time t.
\* readOk / writeOk: whether ws.get_all_records() / ws.update() succeed.
UpsertSummaries(cells, new_rows, t, readOk, writeOk) ==
    LET existing == IF readOk THEN LoadExisting(GetAllRecords(cells), <<>>, t)
                    ELSE <<>>
        st      == MergeRows(new_rows,
                             [lk |-> existing, inserts |-> 0, updates |-> 0], t)
        ordered == SortRows([i \in 1..Len(st.lk) |-> st.lk[i].row])
        matrix  == [i \in 1..Len(ordered) |-> SerializeRow(ordered[i])]
        attempt == new_rows # <<>> /\ (st.updates # 0 \/ st.inserts # 0)
    IN  [ inserts  |-> st.inserts,
          updates  |-> st.updates,
          existing |-> existing,
          attempt  |-> attempt,
          wrote    |-> attempt /\ writeOk,
          matrix   |-> matrix,
          cells    |-> IF attempt /\ writeOk
                       THEN WsUpdate(cells, matrix, Len(existing))
                       ELSE cells ]

\* lastUpsert before any call
NoUpsert ==
    [ rows |-> <<>>, readOk |-> FALSE, attempt |-> FALSE, wrote |-> FALSE,
      done |-> FALSE, inserts |-> 0, updates |-> 0, at |-> 0,
      before |-> <<>>, prevRows |-> <<>>, prevDone |-> FALSE,
      matrix |-> <<>> ]

(***************************************************************************)
(* classifier/email_classifier.py.  A text is classified by the keywords   *)
(* it contains and a sender by the override and domain substrings it       *)
(* contains; the dictionaries are cut down to the words of the texts used. *)
(***************************************************************************)
Roles ==
    <<"Student", "Faculty", "Admin", "Industry", "External Academic",
      "Government / Organization", "General External">>

ROLE_KEYWORDS(role) ==
    CASE role = "Student" -> {"thesis", "professor", "student"}
      [] role = "Faculty" -> {"professor", "faculty"}
      [] role = "Admin" -> {"registrar", "deadline", "office", "policy"}
      [] role = "Industry" -> {"company"}
      [] role = "External Academic" -> {"university"}
      [] role = "Government / Organization" -> {"ministry", "policy"}
      [] OTHER -> {"hello", "newsletter"}

IMPORTANCE_KEYWORDS(level) ==
    CASE level = "High" -> {"urgent", "deadline", "today"}
      [] level = "Medium" -> {"reminder", "update"}
      [] OTHER -> {"newsletter", "promotion"}

sender_overrides(role) ==
    CASE role = "Admin" -> {"office", "registrar", "admissions", "admin", "hr", "finance"}
      [] role = "Faculty" -> {"prof", "dr.", "lecturer", "faculty"}
      [] role = "Student" -> {"student", "roll", "reg no"}
      [] role = "Industry" -> {"hr", "recruit", "talent", "company"}
      [] role = "Government / Organization" -> {"ministry", "department", "authority"}
      [] OTHER -> {}

DOMAIN_HINTS(role) ==
    CASE role = "Student" -> {"@student.", ".edu", ".uni"}
      [] role = "Faculty" -> {"@faculty.", ".edu", ".ac."}
      [] role = "Admin" -> {"@admin.", "@registrar.", "@office."}
      [] role = "Industry" -> {".com", "@company."}
      [] role = "External Academic" -> {".edu", ".ac."}
      [] role = "Government / Organization" -> {".gov", ".org"}
      [] OTHER -> {"@gmail.", "@yahoo.", "@outlook."}

\* the dictionary words that occur in a text (re.search with \b)
KeywordsIn(text) ==
    CASE text = "hello" -> {"hello"}
      [] text = "registrar deadline" -> {"registrar", "deadline"}
      [] text = "newsletter" -> {"newsletter"}
      [] text = "my thesis" -> {"thesis"}
      [] text = "dear professor" -> {"professor"}
      [] text = "policy" -> {"policy"}
      [] OTHER -> {}

\* the override and domain substrings that occur in a sender
SubstringsIn(sender) ==
    CASE sender = "a@x.com" -> {".com"}
      [] sender = "b@y.org" -> {".org"}
      [] OTHER -> {}

EmailText(sender, subject, body) ==
    KeywordsIn(sender) \cup KeywordsIn(subject) \cup KeywordsIn(body)

RoleScore(role, words, sender) ==
    Cardinality(words \cap ROLE_KEYWORDS(role)) * 2
    + Cardinality(SubstringsIn(sender) \cap sender_overrides(role)) * 6
    + Cardinality(SubstringsIn(sender) \cap DOMAIN_HINTS(role))

MaxOf(S) == CHOOSE m \in S : \A x \in S : x <= m

MinOf(a, b) == IF a < b THEN a ELSE b

priority ==
    <<"Admin", "Faculty", "Student", "Industry", "External Academic",
      "Government / Organization", "General External">>

\* the tie resolved in the order of the scores dict instead
BestRole_DictOrder(scores, best_score) ==
    LET first == CHOOSE i \in 1..Len(Roles) :
                    /\ scores[Roles[i]] = best_score
                    /\ \A j \in 1..(i - 1) : scores[Roles[j]] # best_score
    IN  IF best_score = 0 THEN <<"General External", 400>>
        ELSE <<Roles[first], MinOf(best_score * 125, 950)>>

\* the first of the candidates in priority order, and the confidence
BestRole(scores, best_score) ==
    LET first == CHOOSE i \in 1..Len(priority) :
                    /\ scores[priority[i]] = best_score
                    /\ \A j \in 1..(i - 1) : scores[priority[j]] # best_score
    IN  IF best_score = 0 THEN <<"General External", 400>>
        ELSE <<priority[first], MinOf(best_score * 125, 950)>>

RoleOfScores(scores) ==
    BestRole(scores, MaxOf({scores[Roles[i]] : i \in 1..Len(Roles)}))

\* classify_role(email_text, sender_email) -> <<role, confidence>>
classify_role(words, sender) ==
    RoleOfScores([ role \in {Roles[i] : i \in 1..Len(Roles)} |->
                     RoleScore(role, words, sender) ])

Levels == <<"High", "Medium", "Low">>

UrgencyWords == {"asap", "urgent", "deadline", "today", "immediately"}

ImportanceScore(level, words) ==
    Cardinality(words \cap IMPORTANCE_KEYWORDS(level)) * 2
    + (IF level = "High" /\ words \cap UrgencyWords # {} THEN 4 ELSE 0)

\* max(scores, key=scores.get): the first level with the best score
BestLevel(scores, best_score) ==
    LET first == CHOOSE i \in 1..Len(Levels) :
                    /\ scores[Levels[i]] = best_score
                    /\ \A j \in 1..(i - 1) : scores[Levels[j]] # best_score
    IN  IF best_score = 0 THEN <<"Medium", 400>>
        ELSE <<Levels[first], MinOf((best_score * 1000 + 3) \div 6, 950)>>

LevelOfScores(scores) ==
    BestLevel(scores, MaxOf({scores[Levels[i]] : i \in 1..Len(Levels)}))

\* classify_importance(email_text) -> <<level, confidence>>
classify_importance(words) ==
    LevelOfScores([ level \in {Levels[i] : i \in 1..Len(Levels)} |->
                      ImportanceScore(level, words) ])

Classification(r, i) ==
    [ role |-> r[1], role_confidence |-> r[2],
      importance |-> i[1], importance_confidence |-> i[2] ]

classify_email(sender, subject, body) ==
    Classification(classify_role(EmailText(sender, subject, body), sender),
                   classify_importance(EmailText(sender, subject, body)))

(***************************************************************************)
(* Summarizer/groq_summarizer.py: GroqSummarizer                           *)
(***************************************************************************)
\* ttl_seconds, in clock ticks
TtlSeconds == 2

\* a key or a number an entry does not carry
Absent == "<absent>"

NoValue == -1

FailureText == "Summary unavailable due to model error."

get_cache_key(source, contact_email, thread_id) ==
    source \o ":" \o contact_email \o ":" \o thread_id

Has(c, key) == key \in DOMAIN c

Put(c, key, entry) ==
    [k \in DOMAIN c \cup {key} |-> IF k = key THEN entry ELSE c[k]]

Pop(c, key) == [k \in DOMAIN c \ {key} |-> c[k]]

NoKeys == [k \in {} |-> Absent]

\* _run_groq_model: the completion text, or the failure text when the call
\* raises
run_groq_model(prompt, up) ==
    IF up THEN "LLM(" \o prompt \o ")" ELSE FailureText

RECURSIVE JoinThread(_)
JoinThread(thread_emails) ==
    IF thread_emails = <<>> THEN ""
    ELSE Head(thread_emails).sender \o "/" \o Head(thread_emails).subject
         \o "/" \o Head(thread_emails).body
         \o (IF Len(thread_emails) > 1 THEN "---" ELSE "")
         \o JoinThread(Tail(thread_emails))

\* _get_from_cache with the expiry one tick late
get_from_cache_LateExpiry(c, source, contact_email, thread_id, t) ==
    LET key == get_cache_key(source, contact_email, thread_id)
    IN  IF ~Has(c, key) THEN [value |-> Absent, cache |-> c]
        ELSE IF t - (IF c[key].timestamp = NoValue THEN 0
                     ELSE c[key].timestamp) > TtlSeconds + 1
        THEN [value |-> Absent, cache |-> Pop(c, key)]
        ELSE [value |-> c[key].summary, cache |-> c]

\* _get_from_cache at time t: [value, cache]; value Absent is None
get_from_cache(c, source, contact_email, thread_id, t) ==
    LET key == get_cache_key(source, contact_email, thread_id)
    IN  IF ~Has(c, key) THEN [value |-> Absent, cache |-> c]
        ELSE IF t - (IF c[key].timestamp = NoValue THEN 0
                     ELSE c[key].timestamp) > TtlSeconds
        THEN [value |-> Absent, cache |-> Pop(c, key)]
        ELSE [value |-> c[key].summary, cache |-> c]

set_cache(c, source, contact_email, thread_id, summary, t) ==
    Put(c, get_cache_key(source, contact_email, thread_id),
        [ summary |-> summary, subject |-> Absent, preview |-> Absent,
          role |-> Absent, importance |-> Absent, role_confidence |-> NoValue,
          importance_confidence |-> NoValue, timestamp |-> t ])

StartsWith(k, prefix) ==
    Len(k) >= Len(prefix) /\ SubSeq(k, 1, Len(prefix)) = prefix

clear_contact_cache(c, source, contact_email) ==
    LET prefix == source \o ":" \o contact_email
        keys_to_remove ==
            {k \in DOMAIN c : k = prefix \/ StartsWith(k, prefix \o ":")}
    IN  [k \in DOMAIN c \ keys_to_remove |-> c[k]]

\* lines 203-262 of summarize_thread, on a miss: the completion's summary is
\* returned, and cached with the classification cl of the first message
\* when the thread is identified
SummarizeMiss(c, thread_emails, keyed, key, summary, cl, t) ==
    IF ~keyed
    THEN [raised |-> FALSE, value |-> summary, calls |-> 1, cache |-> c]
    ELSE IF thread_emails = <<>>
    THEN [raised |-> TRUE, value |-> Absent, calls |-> 1, cache |-> c]
    ELSE [ raised |-> FALSE, value |-> summary, calls |-> 1,
           cache |-> Put(c, key,
               [ summary |-> summary,
                 subject |-> thread_emails[1].subject,
                 preview |-> thread_emails[1].body,
                 role |-> cl.role,
                 importance |-> cl.importance,
                 role_confidence |-> cl.role_confidence,
                 importance_confidence |-> cl.importance_confidence,
                 timestamp |-> t ]) ]

\* classify_email on the thread's first message (lines 215-240)
ClassifyFirst(thread_emails) ==
    IF thread_emails = <<>>
    THEN [ role |-> "Unknown", role_confidence |-> 0,
           importance |-> "Unknown", importance_confidence |-> 0 ]
    ELSE classify_email(thread_emails[1].sender, thread_emails[1].subject,
                        thread_emails[1].body)

\* summarize_thread with the completion call's exception let through
\* (_run_groq_model without its try/except)
summarize_thread_ModelErrorRaises(c0, thread_emails, source, contact_email, thread_id, force, t, up) ==
    LET c == IF force /\ source # "" /\ contact_email # ""
             THEN clear_contact_cache(c0, source, contact_email) ELSE c0
        keyed == thread_id # "" /\ source # "" /\ contact_email # ""
        key   == get_cache_key(source, contact_email, thread_id)
    IN  IF keyed /\ Has(c, key)
        THEN [ raised |-> FALSE,
               value  |-> IF c[key].summary = Absent THEN "" ELSE c[key].summary,
               calls  |-> 0,
               cache  |-> c ]
        ELSE IF ~up
        THEN [raised |-> TRUE, value |-> Absent, calls |-> 1, cache |-> c]
        ELSE SummarizeMiss(c, thread_emails, keyed, key,
                 run_groq_model("thread:" \o JoinThread(thread_emails), up),
                 ClassifyFirst(thread_emails), t)

\* summarize_thread without the cache check: every call asks the model
summarize_thread_NoCacheCheck(c0, thread_emails, source, contact_email, thread_id, force, t, up) ==
    LET c == IF force /\ source # "" /\ contact_email # ""
             THEN clear_contact_cache(c0, source, contact_email) ELSE c0
        keyed == thread_id # "" /\ source # "" /\ contact_email # ""
        key   == get_cache_key(source, contact_email, thread_id)
    IN  SummarizeMiss(c, thread_emails, keyed, key,
            run_groq_model("thread:" \o JoinThread(thread_emails), up),
            ClassifyFirst(thread_emails), t)

\* summarize_thread(thread_emails, source, contact_email, thread_id, force)
\* at time t: [raised, value, calls, cache]; calls counts the completion
\* calls made, raised is the IndexError of line 252 on an empty thread
summarize_thread(c0, thread_emails, source, contact_email, thread_id, force, t, up) ==
    LET c == IF force /\ source # "" /\ contact_email # ""
             THEN clear_contact_cache(c0, source, contact_email) ELSE c0
        keyed == thread_id # "" /\ source # "" /\ contact_email # ""
        key   == get_cache_key(source, contact_email, thread_id)
    IN  IF keyed /\ Has(c, key)
        THEN [ raised |-> FALSE,
               value  |-> IF c[key].summary = Absent THEN "" ELSE c[key].summary,
               calls  |-> 0,
               cache  |-> c ]
        ELSE SummarizeMiss(c, thread_emails, keyed, key,
                 run_groq_model("thread:" \o JoinThread(thread_emails), up),
                 ClassifyFirst(thread_emails), t)

(***************************************************************************)
(* Calls on the summarizer                                                 *)
(***************************************************************************)
Msg(body) == [sender |-> "a@x.com", subject |-> "hello", body |-> body]

ThreadInputs ==
    { <<>>, <<Msg("registrar deadline")>>,
      <<Msg("newsletter"), Msg("registrar deadline")>> }

\* "" stands for a thread_id that is None
ThreadIdInputs == {"t1", ""}

\* the thread ids of the mailbox
ThreadIds == {"t1", "t2", "t3"}

\* lastCycle before any cycle
NoCycle ==
    [ at |-> 0, listing |-> <<>>, fetched |-> <<>>, before |-> NoKeys,
      cacheBefore |-> NoKeys, draftsBefore |-> <<>>, merged |-> <<>>,
      reused |-> {}, calls |-> <<>>, raised |-> FALSE, n |-> 0,
      up |-> TRUE, reached |-> "none" ]

\* the aggregator's state when the loop starts on an empty mailbox with no
\* cache file
AggIdle ==
    /\ mailbox = [tid \in ThreadIds |-> <<>>]
    /\ records = NoKeys
    /\ drafts = <<>>
    /\ lastCycle = NoCycle

NoOp ==
    [ op |-> "none", source |-> "", contact |-> "", tid |-> "", msgs |-> <<>>,
      force |-> FALSE, at |-> 0, raised |-> FALSE, value |-> Absent,
      calls |-> 0, before |-> NoKeys ]

Tick ==
    /\ now < MaxNow
    /\ now' = now + 1
    /\ UNCHANGED <<sheetVars, fileVars, cacheVars, aggVars>>

\* the completion API goes down or comes back
ToggleModel ==
    /\ modelUp' = ~modelUp
    /\ UNCHANGED <<sheetVars, fileVars, now, cache, lastOp, aggVars>>

CallSummarizeThread ==
    \E msgs \in ThreadInputs, tid \in ThreadIdInputs, force \in BOOLEAN :
       LET r == summarize_thread(cache, msgs, "gmail", "a@x.com", tid, force,
                                 now, modelUp)
       IN  /\ cache' = r.cache
           /\ lastOp' = [ op |-> "summarize_thread", source |-> "gmail",
                          contact |-> "a@x.com", tid |-> tid, msgs |-> msgs,
                          force |-> force, at |-> now, raised |-> r.raised,
                          value |-> r.value, calls |-> r.calls,
                          before |-> cache ]
           /\ UNCHANGED <<sheetVars, fileVars, now, modelUp, aggVars>>

CallGetFromCache ==
    \E tid \in ThreadIdInputs :
       LET r == get_from_cache(cache, "gmail", "a@x.com", tid, now)
       IN  /\ cache' = r.cache
           /\ lastOp' = [ op |-> "get_from_cache", source |-> "gmail",
                          contact |-> "a@x.com", tid |-> tid, msgs |-> <<>>,
                          force |-> FALSE, at |-> now, raised |-> FALSE,
                          value |-> r.value, calls |-> 0, before |-> cache ]
           /\ UNCHANGED <<sheetVars, fileVars, now, modelUp, aggVars>>

CallSetCache ==
    \E tid \in ThreadIdInputs, summary \in {"note"} :
       /\ cache' = set_cache(cache, "gmail", "a@x.com", tid, summary, now)
       /\ lastOp' = [ op |-> "set_cache", source |-> "gmail",
                      contact |-> "a@x.com", tid |-> tid, msgs |-> <<>>,
                      force |-> FALSE, at |-> now, raised |-> FALSE,
                      value |-> summary, calls |-> 0, before |-> cache ]
       /\ UNCHANGED <<sheetVars, fileVars, now, modelUp, aggVars>>

InitCache ==
    /\ sheet = <<>>
    /\ now = 0
    /\ upsertCalls = 0
    /\ lastUpsert = NoUpsert
    /\ FilesIdle
    /\ cache = NoKeys
    /\ modelUp = TRUE
    /\ lastOp = NoOp
    /\ AggIdle

NextCache ==
    \/ Tick
    \/ ToggleModel
    \/ CallSummarizeThread
    \/ CallGetFromCache
    \/ CallSetCache

SpecCache == InitCache /\ [][NextCache]_vars

(***************************************************************************)
(* Properties of the summarizer cache                                      *)
(***************************************************************************)
LastOpKey == get_cache_key(lastOp.source, lastOp.contact, lastOp.tid)

\* the last call was on a thread that had an entry when the call began
LastOpHadEntry == lastOp.tid # "" /\ Has(lastOp.before, LastOpKey)

LastOpAge == lastOp.at - lastOp.before[LastOpKey].timestamp

C6_ExpiredEntryIsAMissOnEveryReadPath ==
    ( /\ lastOp.op \in {"summarize_thread", "get_from_cache"}
      /\ LastOpHadEntry
      /\ lastOp.before[LastOpKey].timestamp # NoValue
      /\ LastOpAge > TtlSeconds )
    => /\ lastOp.op = "get_from_cache" => lastOp.value = Absent
       /\ lastOp.op = "summarize_thread" => lastOp.calls = 1

\* an entry as _set_cache writes it: a summary and a timestamp only
WrittenBySetCache(e) == e.subject = Absent /\ e.timestamp # NoValue

\* C7: for an entry written by _set_cache at time T, _get_from_cache at time
\* t returns the entry's summary when t - T <= ttl_seconds, and returns None
\* and removes the entry when t - T > ttl_seconds.
C7_GetFromCacheHonoursTtl ==
    ( /\ lastOp.op = "get_from_cache"
      /\ LastOpHadEntry
      /\ WrittenBySetCache(lastOp.before[LastOpKey]) )
    => IF LastOpAge <= TtlSeconds
       THEN /\ lastOp.value = lastOp.before[LastOpKey].summary
            /\ cache = lastOp.before
       ELSE /\ lastOp.value = Absent
            /\ ~Has(cache, LastOpKey)

C7_Witness ==
    /\ lastOp.op = "get_from_cache"
    /\ LastOpHadEntry
    /\ WrittenBySetCache(lastOp.before[LastOpKey])
    /\ LastOpAge = TtlSeconds + 1
    /\ lastOp.value = Absent
    /\ ~Has(cache, LastOpKey)

(***************************************************************************)
(* Inputs of upsert_summaries                                              *)
(***************************************************************************)
\* a thread dict as summarize_contact_threads builds it (keys in the
\* order of groq_summarizer.py:394-397) and one whose keys are sorted
ThreadA == <<<<"id", "t1">>, <<"subject", "hello">>, <<"preview", "hi">>>>

ThreadB == <<<<"id", "t2">>>>

ThreadC == <<<<"id", "t3">>>>

RowsOfA ==
    [ id              : {"gmail:a@x.com"},
      email           : {"a@x.com"},
      source          : {"gmail"},
      role            : {"Student", "Admin"},
      role_confidence : {250, 500},
      contact_summary : {"recap1", "recap2"},
      threads         : {PyList(<<ThreadA>>), PyList(<<ThreadB>>)},
      last_summary    : {IsoDate(0)} ]

RowsOfB ==
    [ id              : {""},
      email           : {"b@y.org"},
      source          : {"outlook"},
      role            : {"Student"},
      role_confidence : {NoNumber},
      contact_summary : {"recap1"},
      threads         : {PyList(<<>>), PyList(<<ThreadA>>)},
      last_summary    : {EmptyDate} ]

\* the same contact with two threads, listed in either order
RowsOfC ==
    [ id              : {"gmail:c@x.com"},
      email           : {"c@x.com"},
      source          : {"gmail"},
      role            : {"Student"},
      role_confidence : {250},
      contact_summary : {"recap1"},
      threads         : {PyList(<<ThreadB, ThreadC>>),
                         PyList(<<ThreadC, ThreadB>>)},
      last_summary    : {IsoDate(0)} ]

\* a row whose last_summary is text that is no date
RowOfD ==
    [ id              |-> "gmail:d@x.com",
      email           |-> "d@x.com",
      source          |-> "gmail",
      role            |-> "Student",
      role_confidence |-> 250,
      contact_summary |-> "recap1",
      threads         |-> PyList(<<>>),
      last_summary    |-> BadDate ]

\* the rows of contact a that differ from the first one in at most one of
\* the compared fields, and the rows of the other contacts
RowInputs ==
    {r \in RowsOfA :
        Cardinality({f \in {"role", "role_confidence", "contact_summary"} :
                        r[f] # IF f = "role" THEN "Student"
                               ELSE IF f = "role_confidence" THEN 250
                               ELSE "recap1"})
          + (IF r.threads = PyList(<<ThreadA>>) THEN 0 ELSE 1) <= 1}
        \cup RowsOfB \cup RowsOfC \cup {RowOfD}

\* batches of one row, of two rows with different keys and of two rows
\* with the same key, the id of the second in upper case
Batches ==
    {<<r>> : r \in RowInputs}
        \cup {<<r, s>> : r \in RowsOfC,
                          s \in {b \in RowsOfB : b.threads.items = <<>>}}
        \cup {<<p[1], [p[2] EXCEPT !.id = "GMAIL:C@X.COM"]>> :
                  p \in {q \in RowsOfC \X RowsOfC : q[1] # q[2]}}

(***************************************************************************)
(* Actions                                                                 *)
(***************************************************************************)
\* one call upsert_summaries(new_rows); the call takes one unit of time
Upsert ==
    /\ upsertCalls < MaxUpserts
    /\ \E new_rows \in Batches, readOk \in BOOLEAN, writeOk \in BOOLEAN :
          LET r == UpsertSummaries(sheet, new_rows, now, readOk, writeOk)
          IN  /\ sheet' = r.cells
              /\ lastUpsert' =
                    [ rows     |-> new_rows,
                      readOk   |-> readOk,
                      attempt  |-> r.attempt,
                      wrote    |-> r.wrote,
                      done     |-> readOk /\ (r.attempt => writeOk),
                      inserts  |-> r.inserts,
                      updates  |-> r.updates,
                      at       |-> now,
                      before   |-> sheet,
                      prevRows |-> lastUpsert.rows,
                      prevDone |-> lastUpsert.done,
                      matrix   |-> r.matrix ]
    /\ upsertCalls' = upsertCalls + 1
    /\ now' = now + 1
    /\ UNCHANGED <<cacheVars, aggVars, fileVars>>

InitSheets ==
    /\ sheet = <<>>
    /\ now = 1
    /\ upsertCalls = 0
    /\ lastUpsert = NoUpsert
    /\ FilesIdle
    /\ cache = NoKeys
    /\ modelUp = TRUE
    /\ lastOp = NoOp
    /\ AggIdle

NextSheets == Upsert

SpecSheets == InitSheets /\ [][NextSheets]_vars

(***************************************************************************)
(* Properties of upsert_summaries                                          *)
(***************************************************************************)
\* the incoming rows of the last call, normalized, and the stored rows as
\* the call loaded them
LastIncoming == NormalizeRowPayload(lastUpsert.rows[1], lastUpsert.at)

LastKey == RowKey(LastIncoming)

LastLoaded ==
    LoadExisting(GetAllRecords(lastUpsert.before), <<>>, lastUpsert.at)

LastStored == LastLoaded[IndexOfKey(LastLoaded, LastKey)].row

\* the data row of the worksheet that carries the key
SheetRowOf(key) ==
    LET recs == GetAllRecords(sheet)
    IN  recs[CHOOSE i \in 1..Len(recs) :
                RowKey(NormalizeRowPayload(recs[i], 0)) = key]

LastHit ==
    /\ Len(lastUpsert.rows) = 1
    /\ lastUpsert.readOk
    /\ IndexOfKey(LastLoaded, LastKey) # 0

\* the stored threads cell is the serialization of the incoming list
SameThreads == LastStored.threads.text = SerializeValue(LastIncoming.threads)

SameRoleFields ==
    /\ LastStored.role = LastIncoming.role
    /\ LastStored.role_confidence = LastIncoming.role_confidence

SameSummary == LastStored.contact_summary = LastIncoming.contact_summary

AllThreadsNonEmpty ==
    \A i \in 1..Len(lastUpsert.rows) : lastUpsert.rows[i].threads.items # <<>>

\* C1: a second upsert_summaries call with the same incoming rows (threads
\* non-empty), against the store as the first call left it, issues no store
\* write.
C1_SecondUpsertIssuesNoWrite ==
    ( /\ lastUpsert.prevDone
      /\ lastUpsert.readOk
      /\ lastUpsert.rows = lastUpsert.prevRows
      /\ AllThreadsNonEmpty )
    => ~lastUpsert.attempt

\* C10: a row whose key exists and that differs from the stored row only in
\* contact_summary stages exactly one update and no insert, and the written
\* row's last_summary is the current time; when the staged update comes only
\* from role, role_confidence or threads, the written row keeps the stored
\* last_summary.
C10_LastSummaryBumpedOnlyOnSummaryChange ==
    LastHit =>
      /\ (~SameSummary /\ SameRoleFields /\ SameThreads) =>
            /\ lastUpsert.updates = 1
            /\ lastUpsert.inserts = 0
            /\ lastUpsert.wrote =>
                  SheetRowOf(LastKey).last_summary = IsoDate(lastUpsert.at)
      /\ (SameSummary /\ lastUpsert.updates = 1 /\ lastUpsert.wrote) =>
            SheetRowOf(LastKey).last_summary = LastStored.last_summary

C10_Witness ==
    /\ LastHit
    /\ ~SameSummary /\ SameRoleFields /\ SameThreads
    /\ lastUpsert.wrote
    /\ lastUpsert.updates = 1
    /\ LastStored.last_summary # IsoDate(lastUpsert.at)

\* the stored threads cell is the serialization of the incoming list with
\* its elements in another order
ReorderedThreads ==
    LET items == LastIncoming.threads.items
    IN  \E p \in Permutations(1..Len(items)) :
           LET other == [i \in 1..Len(items) |-> items[p[i]]]
           IN  /\ other # items
               /\ LastStored.threads.text = SerializeValue(PyList(other))

\* C11: re-submitting a row whose threads list has the same elements as the
\* stored one in a different order, everything else equal, stages no update
\* and attempts no store write.
C11_ReorderedThreadsStageNoUpdate ==
    (LastHit /\ SameSummary /\ SameRoleFields /\ ReorderedThreads) =>
        /\ lastUpsert.updates = 0
        /\ ~lastUpsert.attempt

\* the keys of the data rows of the worksheet
SheetKeys ==
    LET recs == GetAllRecords(sheet)
    IN  [i \in 1..Len(recs) |-> RowKey(NormalizeRowPayload(recs[i], 0))]

\* C12: after a call that wrote, the worksheet holds at most one data row
\* per deduplication key.
C12_OneRowPerKeyAfterWrite ==
    lastUpsert.wrote =>
        \A i, j \in 1..Len(SheetKeys) :
            SheetKeys[i] = SheetKeys[j] => i = j


(***************************************************************************)
(* Summarizer/groq_summarizer.py: summarize_contact_threads                *)
(***************************************************************************)
\* dict.get(key, default) on a value that may be missing
Get(v, default) == IF v = Absent THEN default ELSE v

GetNum(v, default) == IF v = NoValue THEN default ELSE v

\* self.cache.get(cache_key, {})
EmptyEntry ==
    [ summary |-> Absent, subject |-> Absent, preview |-> Absent,
      role |-> Absent, importance |-> Absent, role_confidence |-> NoValue,
      importance_confidence |-> NoValue, timestamp |-> NoValue ]

EntryOf(c, key) == IF Has(c, key) THEN c[key] ELSE EmptyEntry

RECURSIVE JoinTexts(_)
JoinTexts(all_threads) ==
    IF all_threads = <<>> THEN ""
    ELSE Head(all_threads)
         \o (IF Len(all_threads) > 1 THEN "---" ELSE "")
         \o JoinTexts(Tail(all_threads))

\* the (role, role_confidence) pairs of the threads' cache entries whose
\* role is known, in the order of thread_ids
RECURSIVE CachedRoles(_, _, _, _)
CachedRoles(c, source, contact_email, thread_ids) ==
    IF thread_ids = <<>> THEN <<>>
    ELSE LET entry == EntryOf(c, get_cache_key(source, contact_email,
                                               Head(thread_ids)))
             rest  == CachedRoles(c, source, contact_email, Tail(thread_ids))
         IN  IF entry.role \notin {Absent, "", "Unknown"}
             THEN <<[role |-> entry.role,
                     conf |-> GetNum(entry.role_confidence, 0)]>> \o rest
             ELSE rest

CountOf(roles, r) == Cardinality({i \in 1..Len(roles) : roles[i].role = r})

\* Counter(roles).most_common(1)[0][0]: the most frequent role, and among
\* equally frequent ones the first that was counted
most_common(roles) ==
    LET best == MaxOf({CountOf(roles, roles[i].role) : i \in 1..Len(roles)})
        i0 == CHOOSE i \in 1..Len(roles) :
                 /\ CountOf(roles, roles[i].role) = best
                 /\ \A j \in 1..(i - 1) : CountOf(roles, roles[j].role) # best
    IN  roles[i0].role

RECURSIVE SumConf(_)
SumConf(roles) ==
    IF roles = <<>> THEN 0 ELSE Head(roles).conf + SumConf(Tail(roles))

\* the contact-level role: the majority of the cached thread roles; with no
\* known role the code calls classify_role with one argument, which raises
\* TypeError, and the except branch leaves "Unknown"
RoleOfRoles(thread_ids, roles) ==
    IF thread_ids = <<>> \/ roles = <<>>
    THEN [role |-> "Unknown", conf |-> 0]
    ELSE [role |-> most_common(roles),
          conf |-> SumConf(roles) \div Len(roles)]

ContactRole(c, source, contact_email, thread_ids) ==
    RoleOfRoles(thread_ids, CachedRoles(c, source, contact_email, thread_ids))

\* the loop of lines 361-402 over thread_ids: [cache, threads]
RECURSIVE ContactThreadsLoop(_, _, _, _, _, _)
ContactThreadsLoop(c, source, contact_email, thread_ids, cr, threads) ==
    IF thread_ids = <<>> THEN [cache |-> c, threads |-> threads]
    ELSE
    LET tid       == Head(thread_ids)
        cache_key == get_cache_key(source, contact_email, tid)
        entry     == EntryOf(c, cache_key)
        subject   == Get(entry.subject, "")
        preview   == Get(entry.preview, "")
        body      == IF preview # "" THEN preview ELSE subject
        known     == Get(entry.importance, "Unknown") # "Unknown"
        ci        == classify_importance(EmailText(contact_email, subject, body))
        importance      == IF known THEN entry.importance ELSE ci[1]
        importance_conf == IF known THEN GetNum(entry.importance_confidence, 0)
                           ELSE ci[2]
        entry2 == [entry EXCEPT
                      !.importance = IF known THEN @ ELSE importance,
                      !.importance_confidence = IF known THEN @ ELSE importance_conf,
                      !.role = cr.role,
                      !.role_confidence = cr.conf]
        meta == [ id |-> tid, subject |-> subject, preview |-> preview,
                  summary |-> Get(entry.summary, ""), role |-> cr.role,
                  importance |-> importance,
                  importance_confidence |-> importance_conf ]
    IN  ContactThreadsLoop(Put(c, cache_key, entry2), source, contact_email,
                           Tail(thread_ids), cr, Append(threads, meta))

\* the contact entry of lines 343-352 with the threads of lines 354-402
EntryOfContact(source, contact_email, cr, contact_summary_text, loop, t) ==
    [ entry |-> [ id |-> source \o ":" \o contact_email,
                  email |-> contact_email,
                  source |-> source,
                  role |-> cr.role,
                  role_confidence |-> cr.conf,
                  threads |-> loop.threads,
                  summary |-> contact_summary_text,
                  timestamp |-> t ],
      cache |-> loop.cache ]

WithContactRole(c, all_threads, source, contact_email, thread_ids, cr, t, up) ==
    EntryOfContact(source, contact_email, cr,
        run_groq_model("contact:" \o JoinTexts(all_threads), up),
        ContactThreadsLoop(c, source, contact_email, thread_ids, cr, <<>>), t)

\* summarize_contact_threads(all_threads, source, contact_email, thread_ids,
\* force) at time t: [entry, cache]; it makes one completion call
summarize_contact_threads(c0, all_threads, source, contact_email, thread_ids, force, t, up) ==
    LET c == IF force /\ source # "" /\ contact_email # ""
             THEN clear_contact_cache(c0, source, contact_email) ELSE c0
    IN  WithContactRole(c, all_threads, source, contact_email, thread_ids,
            ContactRole(c, source, contact_email, thread_ids), t, up)

(***************************************************************************)
(* providers/reply_queue.py: ReplyQueue, as section 4.5 of the             *)
(* specification describes it                                              *)
(***************************************************************************)
has_recent_draft(q, thread_id, last_message_ts, statuses, contact_id) ==
    \E i \in 1..Len(q) :
        /\ q[i].contact_id = contact_id
        /\ q[i].thread_id = thread_id
        /\ q[i].status \in statuses
        /\ q[i].last_message_ts >= last_message_ts

enqueue_draft(q, draft) == Append(q, draft)

(***************************************************************************)
(* providers/mcp_summaries_provider.py: McpSummariesProvider.  Timestamps  *)
(* are clock instants; the ISO strings the code compares order as their    *)
(* instants do.                                                            *)
(***************************************************************************)
\* a date that neither parsedate_to_datetime nor _parse_iso can read
UnparseableDate == -2

\* datetime.min, what _parse_iso returns for a text it cannot read
DatetimeMin == 0

\* _normalize_timestamp: a missing date becomes the current time; a date
\* parsedate_to_datetime cannot read goes through _parse_iso, which never
\* raises
normalize_timestamp(value, t) ==
    IF value = NoValue THEN t
    ELSE IF value = UnparseableDate THEN DatetimeMin
    ELSE value

\* {} where the code looks for a thread's latest message
EmptyMsg ==
    [sender |-> Absent, subject |-> Absent, body |-> Absent, date |-> NoValue]

LastMsg(messages) ==
    IF messages = <<>> THEN EmptyMsg ELSE messages[Len(messages)]

\* the thread dict _from_gmail builds for thread tid (lines 261-272)
GmailThread(tid, thread_messages, t) ==
    LET last_msg == LastMsg(thread_messages)
    IN  [ id |-> tid,
          messages |-> thread_messages,
          last_message_ts |-> normalize_timestamp(last_msg.date, t),
          last_message_id |-> Absent,
          last_subject |-> Get(last_msg.subject, ""),
          last_body |-> Get(last_msg.body, "") ]

\* isinstance(msg, dict): a message that is no dict has no sender key
IsDict(msg) == "sender" \in DOMAIN msg

\* clean_messages of lines 251-263: the messages that are dicts
CleanMessages(thread_messages) == SelectSeq(thread_messages, IsDict)

\* the contact a thread is filed under: its first sender with an "@"
ContactEmailOf(thread_messages) ==
    LET senders == SelectSeq(CleanMessages(thread_messages),
                             LAMBDA msg : msg.sender # "")
    IN  IF senders = <<>> THEN "unknown@gmail.com" ELSE senders[1].sender

RECURSIVE ContactEmails(_, _, _)
ContactEmails(listing, mbox, seen) ==
    IF listing = <<>> THEN seen
    ELSE LET e == ContactEmailOf(mbox[Head(listing)])
         IN  ContactEmails(Tail(listing), mbox,
                 IF \E i \in 1..Len(seen) : seen[i] = e THEN seen
                 ELSE Append(seen, e))

RECURSIVE ThreadsOf(_, _, _, _)
ThreadsOf(email, listing, mbox, t) ==
    IF listing = <<>> THEN <<>>
    ELSE LET tid == Head(listing)
             rest == ThreadsOf(email, Tail(listing), mbox, t)
         IN  IF ContactEmailOf(mbox[tid]) = email
             THEN <<GmailThread(tid, CleanMessages(mbox[tid]), t)>> \o rest
             ELSE rest

\* _from_gmail on the threads list_threads returned, in its order
from_gmail(listing, mbox, t) ==
    LET emails == ContactEmails(listing, mbox, <<>>)
    IN  [ i \in 1..Len(emails) |->
            [ email |-> emails[i], source |-> "gmail",
              threads |-> ThreadsOf(emails[i], listing, mbox, t) ] ]

\* _threads_changed looking at the thread ids only
threads_changed_IdsOnly(contact, existing_summaries, cache_key) ==
    IF ~Has(existing_summaries, cache_key) THEN TRUE
    ELSE
    LET old == existing_summaries[cache_key].threads
    IN  \E i \in 1..Len(contact.threads) :
           \A j \in 1..Len(old) : old[j].id # contact.threads[i].id

\* _threads_changed(contact, existing_contact), existing_contact being
\* existing_summaries.get(cache_key)
threads_changed(contact, existing_summaries, cache_key) ==
    IF ~Has(existing_summaries, cache_key) THEN TRUE
    ELSE
    LET old == existing_summaries[cache_key].threads
    IN  \E i \in 1..Len(contact.threads) :
           LET tid    == contact.threads[i].id
               new_ts == contact.threads[i].last_message_ts
               at     == {j \in 1..Len(old) : old[j].id = tid}
           IN  \/ at = {}
               \/ LET old_ts == old[MaxOf(at)].last_message_ts
                  IN  new_ts # NoValue /\ old_ts # NoValue /\ new_ts > old_ts

LowValue == {"low", "spam", "junk", "ignore"}

\* _should_generate_draft with every importance worth a draft
should_generate_draft_Always(classification) == TRUE

\* _should_generate_draft
should_generate_draft(classification) ==
    \/ Lower(classification.importance) = ""
    \/ Lower(classification.importance) \notin LowValue

\* _enqueue_reply_draft without the has_recent_draft check
enqueue_reply_draft_NoDedup(q, contact, thread_id, thread_summary, classification, latest_msg, last_ts, up) ==
    IF thread_summary = "" \/ contact.email = "" \/ contact.source = ""
    THEN [drafts |-> q, calls |-> 0]
    ELSE
    LET contact_id == contact.source \o ":" \o contact.email
        reply_text ==
            run_groq_model("reply:" \o thread_summary \o "/"
                           \o classification.role \o "/"
                           \o classification.importance \o "/"
                           \o Get(latest_msg.subject, "(no subject)") \o "/"
                           \o Get(latest_msg.body, ""), up)
        draft == [ contact_id |-> contact_id,
                   thread_id |-> thread_id,
                   generated_reply |-> reply_text,
                   status |-> "pending_review",
                   last_message_ts |-> last_ts,
                   importance |-> classification.importance,
                   role |-> classification.role ]
    IN  [drafts |-> enqueue_draft(q, draft), calls |-> 1]

\* _enqueue_reply_draft: [drafts, calls]
enqueue_reply_draft(q, contact, thread_id, thread_summary, classification, latest_msg, last_ts, up) ==
    IF thread_summary = "" \/ contact.email = "" \/ contact.source = ""
    THEN [drafts |-> q, calls |-> 0]
    ELSE
    LET contact_id == contact.source \o ":" \o contact.email
        reply_text ==
            run_groq_model("reply:" \o thread_summary \o "/"
                           \o classification.role \o "/"
                           \o classification.importance \o "/"
                           \o Get(latest_msg.subject, "(no subject)") \o "/"
                           \o Get(latest_msg.body, ""), up)
        draft == [ contact_id |-> contact_id,
                   thread_id |-> thread_id,
                   generated_reply |-> reply_text,
                   status |-> "pending_review",
                   last_message_ts |-> last_ts,
                   importance |-> classification.importance,
                   role |-> classification.role ]
    IN  IF has_recent_draft(q, thread_id, last_ts,
                            {"pending_review", "approved", "sent"}, contact_id)
        THEN [drafts |-> q, calls |-> 1]
        ELSE [drafts |-> enqueue_draft(q, draft), calls |-> 1]

\* the details _summarize_contact_threads keeps for a thread it fetched
FetchedDetails(classification, th, last_ts) ==
    [ importance |-> classification.importance,
      importance_confidence |-> classification.importance_confidence,
      role |-> classification.role,
      role_confidence |-> classification.role_confidence,
      last_message_ts |-> last_ts,
      last_message_id |-> th.last_message_id,
      last_subject |-> th.last_subject,
      last_body |-> th.last_body ]

\* ... and for a thread it only knows from the previous record
PreservedDetails(old_thread) ==
    [ importance |-> old_thread.importance,
      importance_confidence |-> old_thread.importance_confidence,
      role |-> old_thread.role,
      role_confidence |-> old_thread.role_confidence,
      last_message_ts |-> old_thread.last_message_ts,
      last_message_id |-> old_thread.last_message_id,
      last_subject |-> old_thread.last_subject,
      last_body |-> old_thread.last_body ]

\* existing_threads.pop(thread_id, None)
RECURSIVE WithoutId(_, _)
WithoutId(threads, tid) ==
    IF threads = <<>> THEN <<>>
    ELSE IF Head(threads).id = tid THEN WithoutId(Tail(threads), tid)
    ELSE <<Head(threads)>> \o WithoutId(Tail(threads), tid)

\* _should_generate_draft and _enqueue_reply_draft of lines 344-352
maybe_enqueue_reply_draft(q, contact, thread_id, thread_summary, classification, latest_msg, last_ts, up) ==
    IF should_generate_draft(classification)
    THEN enqueue_reply_draft(q, contact, thread_id, thread_summary,
                             classification, latest_msg, last_ts, up)
    ELSE [drafts |-> q, calls |-> 0]

\* the completion calls a step of the loop adds to the log: which kind, for
\* which thread of which contact
LogCall(calls, n, kind, tid, contact) ==
    IF n = 1
    THEN Append(calls, [ kind |-> kind, tid |-> tid,
                         contact |-> contact.source \o ":" \o contact.email ])
    ELSE calls

\* the step for a fetched thread without all_threads_texts.append(summary)
AfterDraft_NoText(acc, contact, th, r, classification, last_ts, d) ==
    [ cache      |-> r.cache,
      drafts     |-> d.drafts,
      thread_ids |-> Append(acc.thread_ids, th.id),
      texts      |-> acc.texts,
      details    |-> Put(acc.details, th.id,
                         FetchedDetails(classification, th, last_ts)),
      existing   |-> WithoutId(acc.existing, th.id),
      calls      |-> LogCall(LogCall(acc.calls, r.calls, "thread", th.id, contact),
                             d.calls, "reply", th.id, contact),
      raised     |-> FALSE ]

\* lines 327-354 for the fetched thread th: r is what summarize_thread
\* returned, d what the draft step did
AfterDraft(acc, contact, th, r, classification, last_ts, d) ==
    [ cache      |-> r.cache,
      drafts     |-> d.drafts,
      thread_ids |-> Append(acc.thread_ids, th.id),
      texts      |-> Append(acc.texts, r.value),
      details    |-> Put(acc.details, th.id,
                         FetchedDetails(classification, th, last_ts)),
      existing   |-> WithoutId(acc.existing, th.id),
      calls      |-> LogCall(LogCall(acc.calls, r.calls, "thread", th.id, contact),
                             d.calls, "reply", th.id, contact),
      raised     |-> FALSE ]

AfterClassify(acc, contact, th, r, latest_msg, classification, last_ts, t, up) ==
    AfterDraft(acc, contact, th, r, classification, last_ts,
               maybe_enqueue_reply_draft(acc.drafts, contact, th.id, r.value,
                                         classification, latest_msg, last_ts,
                                         up))

\* lines 320-342: an exception of summarize_thread ends the loop
AfterSummarize(acc, contact, th, r, latest_msg, t, up) ==
    IF r.raised
    THEN [acc EXCEPT !.cache = r.cache,
                     !.calls = LogCall(@, r.calls, "thread", th.id, contact),
                     !.raised = TRUE]
    ELSE AfterClassify(acc, contact, th, r, latest_msg,
             classify_email(Get(latest_msg.sender, contact.email),
                            Get(latest_msg.subject, ""),
                            Get(latest_msg.body, "")),
             IF th.last_message_ts # NoValue THEN th.last_message_ts
             ELSE normalize_timestamp(latest_msg.date, t),
             t, up)

\* the loop of lines 309-354 over the fetched threads.  acc carries the
\* summarizer cache, the draft queue, thread_ids, all_threads_texts,
\* thread_details, existing_threads, the completion calls made and whether
\* summarize_thread raised.
RECURSIVE FetchedLoop(_, _, _, _, _)
FetchedLoop(acc, contact, threads, t, up) ==
    IF threads = <<>> \/ acc.raised THEN acc
    ELSE FetchedLoop(
             AfterSummarize(acc, contact, Head(threads),
                 summarize_thread(acc.cache, Head(threads).messages,
                                  contact.source, contact.email,
                                  Head(threads).id, FALSE, t, up),
                 LastMsg(Head(threads).messages), t, up),
             contact, Tail(threads), t, up)

\* the preserving loop left out: threads that were not fetched are dropped
PreservedLoop_Dropped(acc, old_threads) == acc

\* the loop of lines 361-375 over the previous record's threads that were
\* not fetched
RECURSIVE PreservedLoop(_, _)
PreservedLoop(acc, old_threads) ==
    IF old_threads = <<>> THEN acc
    ELSE
    LET old_thread == Head(old_threads)
        summary_text == Get(old_thread.summary, "")
    IN  PreservedLoop(
            [acc EXCEPT
                !.texts = IF summary_text # "" THEN Append(@, summary_text) ELSE @,
                !.thread_ids = Append(@, old_thread.id),
                !.details = Put(@, old_thread.id, PreservedDetails(old_thread))],
            Tail(old_threads))

\* lines 385-395: the thread_meta of the contact entry, patched with the
\* thread's details
PatchThread(thread_meta, details) ==
    [ id |-> thread_meta.id,
      subject |-> thread_meta.subject,
      preview |-> thread_meta.preview,
      summary |-> thread_meta.summary,
      importance |-> details.importance,
      importance_confidence |-> details.importance_confidence,
      role |-> details.role,
      role_confidence |-> details.role_confidence,
      last_message_ts |-> details.last_message_ts,
      last_message_id |-> details.last_message_id,
      last_subject |-> details.last_subject,
      last_body |-> details.last_body ]

\* existing_threads of lines 304-307: the previous record's threads that
\* have an id (a record's thread ids are distinct)
ExistingThreads(existing_summaries, cache_key) ==
    IF ~Has(existing_summaries, cache_key) THEN <<>>
    ELSE SelectSeq(existing_summaries[cache_key].threads,
                   LAMBDA th : th.id # "")

\* lines 385-397: the contact entry r.entry with every thread patched
PatchedRecord(cache_key, acc, r) ==
    [ raised |-> FALSE,
      entry |-> [r.entry EXCEPT !.threads =
                   [ i \in 1..Len(r.entry.threads) |->
                       PatchThread(r.entry.threads[i],
                                   acc.details[r.entry.threads[i].id]) ]],
      cache |-> r.cache,
      drafts |-> acc.drafts,
      calls |-> Append(acc.calls, [kind |-> "contact", tid |-> "",
                                   contact |-> cache_key]) ]

\* lines 377-383: the contact-level summary over the collected threads
ContactEntry(contact, cache_key, acc, t, up) ==
    PatchedRecord(cache_key, acc,
        summarize_contact_threads(acc.cache, acc.texts, contact.source,
                                  contact.email, acc.thread_ids, FALSE, t, up))

\* lines 356-397, after the loop over the fetched threads
AfterFetched(contact, cache_key, acc, t, up) ==
    IF acc.raised
    THEN [ raised |-> TRUE, entry |-> Absent, cache |-> acc.cache,
           drafts |-> acc.drafts, calls |-> acc.calls ]
    ELSE ContactEntry(contact, cache_key, PreservedLoop(acc, acc.existing),
                      t, up)

\* _summarize_contact_threads(contact, existing_contact) at time t:
\* [raised, entry, cache, drafts, calls]
summarize_contact(contact, existing_summaries, cache_key, c, q, t, up) ==
    AfterFetched(contact, cache_key,
        FetchedLoop([ cache |-> c, drafts |-> q, thread_ids |-> <<>>,
                      texts |-> <<>>, details |-> NoKeys,
                      existing |-> ExistingThreads(existing_summaries, cache_key),
                      calls |-> <<>>, raised |-> FALSE ],
                    contact, contact.threads, t, up),
        t, up)

\* get_summaries' bookkeeping after a contact was summarized
AfterContact(acc, r) ==
    [ cache  |-> r.cache,
      drafts |-> r.drafts,
      merged |-> IF r.raised THEN acc.merged ELSE Append(acc.merged, r.entry),
      reused |-> acc.reused,
      calls  |-> acc.calls \o r.calls,
      raised |-> r.raised ]

\* the loop of get_summaries over the fetched contacts (lines 427-444)
RECURSIVE ContactsLoop(_, _, _, _, _)
ContactsLoop(acc, all_data, existing_summaries, t, up) ==
    IF all_data = <<>> \/ acc.raised THEN acc
    ELSE
    LET contact   == Head(all_data)
        cache_key == contact.source \o ":" \o contact.email
    IN  IF /\ Has(existing_summaries, cache_key)
           /\ ~threads_changed(contact, existing_summaries, cache_key)
        THEN ContactsLoop(
                 [acc EXCEPT
                     !.merged = Append(@, existing_summaries[cache_key]),
                     !.reused = @ \cup {cache_key}],
                 Tail(all_data), existing_summaries, t, up)
        ELSE ContactsLoop(
                 AfterContact(acc,
                     summarize_contact(contact, existing_summaries, cache_key,
                                       acc.cache, acc.drafts, t, up)),
                 Tail(all_data), existing_summaries, t, up)

\* get_summaries(existing_cache) on the data the providers returned:
\* [cache, drafts, merged, reused, calls, raised]
get_summaries(all_data, existing_summaries, c, q, t, up) ==
    ContactsLoop([ cache |-> c, drafts |-> q, merged |-> <<>>, reused |-> {},
                   calls |-> <<>>, raised |-> FALSE ],
                 all_data, existing_summaries, t, up)

\* the merge of lines 387-392 of auto_summarizer_loop.py
RECURSIVE MergeSummaries(_, _)
MergeSummaries(summaries, new_summaries) ==
    IF new_summaries = <<>> THEN summaries
    ELSE LET s == Head(new_summaries)
         IN  MergeSummaries(Put(summaries, s.source \o ":" \o s.email, s),
                            Tail(new_summaries))

(***************************************************************************)
(* The loop of run_unified_agent over a mailbox that grows                 *)
(***************************************************************************)
MaxMail == 3
MaxCycles == 2

Bodies == {"registrar deadline", "newsletter"}

MailCount(mbox) ==
    LET RECURSIVE Total(_)
        Total(S) == IF S = {} THEN 0
                    ELSE LET tid == CHOOSE x \in S : TRUE
                         IN  Len(mbox[tid]) + Total(S \ {tid})
    IN  Total(ThreadIds)

\* a message from the contact, received at time t
MailMsg(body, t) ==
    [sender |-> "a@x.com", subject |-> "hello", body |-> body, date |-> t]

\* the id the provider gives the next new thread: ids are handed out in
\* the order t1, t2, t3
NextThreadId(mbox) ==
    IF mbox["t1"] = <<>> THEN "t1"
    ELSE IF mbox["t2"] = <<>> THEN "t2" ELSE "t3"

\* a message arrives in a thread, an existing one or a new one
Receive ==
    /\ MailCount(mailbox) < MaxMail
    /\ \E tid \in ThreadIds, body \in Bodies :
          /\ mailbox[tid] = <<>> => tid = NextThreadId(mailbox)
          /\ mailbox' = [mailbox EXCEPT ![tid] = Append(@, MailMsg(body, now))]
    /\ now' = now + 1
    /\ UNCHANGED <<sheetVars, fileVars, cacheVars, records, drafts, lastCycle>>

\* the thread of S with the latest message
Newest(S, mbox) ==
    CHOOSE tid \in S :
       \A other \in S : LastMsg(mbox[tid]).date >= LastMsg(mbox[other]).date

\* the threads S as the Gmail API lists them: newest first
RECURSIVE ByRecency(_, _)
ByRecency(S, mbox) ==
    IF S = {} THEN <<>>
    ELSE <<Newest(S, mbox)>> \o ByRecency(S \ {Newest(S, mbox)}, mbox)

\* how far a cycle of run_unified_agent gets: an exception in get_summaries
\* and an empty result both lead to `continue` (lines 339-341, 381-384);
\* otherwise the merge, save_cache and the sheet sync follow
ReachedBy(r) ==
    IF r.raised THEN "error"
    ELSE IF r.merged = <<>> THEN "empty" ELSE "sync"

\* what a cycle leaves behind: r is what get_summaries did; an exception
\* skips the merge, and so does an empty result
CycleEffect(listing, all_data, r) ==
    /\ cache' = r.cache
    /\ drafts' = r.drafts
    /\ records' = IF r.raised THEN records
                  ELSE MergeSummaries(records, r.merged)
    /\ lastCycle' =
          [ at |-> now, listing |-> listing, fetched |-> all_data,
            before |-> records, cacheBefore |-> cache,
            draftsBefore |-> drafts, merged |-> r.merged,
            reused |-> r.reused, calls |-> r.calls,
            raised |-> r.raised, n |-> lastCycle.n + 1,
            up |-> modelUp, reached |-> ReachedBy(r) ]
    /\ UNCHANGED <<sheetVars, fileVars, now, modelUp, lastOp, mailbox>>

CycleOn(listing, all_data) ==
    CycleEffect(listing, all_data,
                get_summaries(all_data, records, cache, drafts, now, modelUp))

\* one cycle of the loop: list_threads returns some of the mailbox's
\* threads, newest first (threads without messages are never listed, and
\* the window of the latest N threads may leave any of the contact's threads
\* out), get_summaries aggregates them and the result is merged into
\* cache["summaries"]
Cycle ==
    /\ lastCycle.n < MaxCycles
    /\ \E S \in SUBSET {tid \in ThreadIds : mailbox[tid] # <<>>} :
          CycleOn(ByRecency(S, mailbox),
                  from_gmail(ByRecency(S, mailbox), mailbox, now))

InitAgg ==
    /\ sheet = <<>>
    /\ now = 1
    /\ upsertCalls = 0
    /\ lastUpsert = NoUpsert
    /\ FilesIdle
    /\ cache = NoKeys
    /\ modelUp = TRUE
    /\ lastOp = NoOp
    /\ AggIdle

NextAgg ==
    \/ Receive
    \/ Cycle

SpecAgg == InitAgg /\ [][NextAgg]_vars

(***************************************************************************)
(* Properties of the aggregator.  They are stated on the last cycle: for   *)
(* the i-th fetched contact, lastCycle.merged[i] is the record the cycle   *)
(* returned for it and lastCycle.before holds the records it started from. *)
(***************************************************************************)
CycleDone == lastCycle.n > 0 /\ ~lastCycle.raised

Contacts == 1..Len(lastCycle.merged)

KeyOf(i) == lastCycle.fetched[i].source \o ":" \o lastCycle.fetched[i].email

HadRecord(i) == Has(lastCycle.before, KeyOf(i))

Reused(i) == KeyOf(i) \in lastCycle.reused

\* the record _summarize_contact_threads built for the i-th contact
Summarized(i) == CycleDone /\ i \in Contacts /\ ~Reused(i)

IdsOf(threads) == {threads[j].id : j \in 1..Len(threads)}

\* F and P: the fetched thread ids and the previous record's thread ids
FetchedIds(i) == IdsOf(lastCycle.fetched[i].threads)

PreviousIds(i) ==
    IF HadRecord(i) THEN IdsOf(lastCycle.before[KeyOf(i)].threads) ELSE {}

ThreadOf(threads, tid) ==
    threads[CHOOSE j \in 1..Len(threads) : threads[j].id = tid]

\* a fetched thread of the i-th contact is in the previous record with an
\* older last_message_ts
AdvancedThread(i, tid) ==
    /\ tid \in FetchedIds(i) \cap PreviousIds(i)
    /\ ThreadOf(lastCycle.fetched[i].threads, tid).last_message_ts
          > ThreadOf(lastCycle.before[KeyOf(i)].threads, tid).last_message_ts

CallsFor(i, kind, tid) ==
    { k \in 1..Len(lastCycle.calls) :
         /\ lastCycle.calls[k].contact = KeyOf(i)
         /\ lastCycle.calls[k].kind = kind
         /\ lastCycle.calls[k].tid = tid }

CallsOfContact(i) ==
    {k \in 1..Len(lastCycle.calls) : lastCycle.calls[k].contact = KeyOf(i)}

DraftsOf(q, key) == SelectSeq(q, LAMBDA d : d.contact_id = key)

\* C3: the record _summarize_contact_threads produces from a previous record
\* with thread ids P and a fetch with thread ids F holds exactly the thread
\* ids of P and F together, each once.
C3_NoThreadLossMerge ==
    \A i \in Contacts :
       Summarized(i) =>
          LET threads == lastCycle.merged[i].threads
          IN  /\ IdsOf(threads) = PreviousIds(i) \cup FetchedIds(i)
              /\ \A j, k \in 1..Len(threads) :
                    threads[j].id = threads[k].id => j = k

C3_Witness ==
    /\ Summarized(1)
    /\ PreviousIds(1) = {"t1", "t2"}
    /\ FetchedIds(1) = {"t2", "t3"}
    /\ IdsOf(lastCycle.merged[1].threads) = {"t1", "t2", "t3"}
    /\ Len(lastCycle.merged[1].threads) = 3

\* C4: in every record _summarize_contact_threads returns, every thread's
\* role equals the record's contact-level role.
C4_ThreadRolesEqualContactRole ==
    \A i \in Contacts :
       Summarized(i) =>
          \A j \in 1..Len(lastCycle.merged[i].threads) :
             lastCycle.merged[i].threads[j].role = lastCycle.merged[i].role

\* C5: a cycle that re-summarizes a contact whose previous record has an
\* established role reports that same role.
C5_ContactRoleIsStable ==
    \A i \in Contacts :
       ( /\ Summarized(i)
         /\ HadRecord(i)
         /\ lastCycle.before[KeyOf(i)].role # "Unknown" )
       => lastCycle.merged[i].role = lastCycle.before[KeyOf(i)].role

\* C8: a fetched thread whose last_message_ts advanced since the previous
\* record gets a new completion call and a cache entry rewritten at the
\* cycle's time; a fetched thread that has a cache entry and did not advance
\* gets no completion call.
C8_AdvancedThreadIsResummarized ==
    \A i \in Contacts :
       CycleDone =>
          \A tid \in FetchedIds(i) :
             LET key == get_cache_key(lastCycle.fetched[i].source,
                                      lastCycle.fetched[i].email, tid)
             IN  IF AdvancedThread(i, tid)
                 THEN /\ CallsFor(i, "thread", tid) # {}
                      /\ Has(cache, key)
                      /\ cache[key].timestamp = lastCycle.at
                 ELSE Has(lastCycle.cacheBefore, key)
                         => CallsFor(i, "thread", tid) = {}

\* what a reuse is: the previous record returned as it was, no completion
\* call and no new draft for the contact
ReusedVerbatim(i) ==
    /\ lastCycle.merged[i] = lastCycle.before[KeyOf(i)]
    /\ CallsOfContact(i) = {}
    /\ DraftsOf(drafts, KeyOf(i)) = DraftsOf(lastCycle.draftsBefore, KeyOf(i))

\* C9 as stated: a contact with a previous record is reused exactly when no
\* fetched thread advanced and the fetched thread ids equal the previous
\* ones.
C9_ReusedIffSameIdsAndNoAdvance ==
    \A i \in Contacts :
       (CycleDone /\ HadRecord(i)) =>
          /\ Reused(i) <=> ( /\ FetchedIds(i) = PreviousIds(i)
                             /\ \A tid \in FetchedIds(i) : ~AdvancedThread(i, tid) )
          /\ Reused(i) => ReusedVerbatim(i)
          /\ ~Reused(i) => CallsFor(i, "contact", "") # {}

\* C9: a contact with a previous record is reused verbatim, with no
\* completion call and no draft generation, exactly when every fetched
\* thread id is in the previous record and no fetched thread's
\* last_message_ts advanced; otherwise it is re-summarized.
C9_ReusedIffNothingNewAndNoAdvance ==
    \A i \in Contacts :
       (CycleDone /\ HadRecord(i)) =>
          /\ Reused(i) <=> ( /\ FetchedIds(i) \subseteq PreviousIds(i)
                             /\ \A tid \in FetchedIds(i) : ~AdvancedThread(i, tid) )
          /\ Reused(i) => ReusedVerbatim(i)
          /\ ~Reused(i) => CallsFor(i, "contact", "") # {}

C9_Witness ==
    /\ CycleDone
    /\ 1 \in Contacts
    /\ HadRecord(1)
    /\ Reused(1)
    /\ FetchedIds(1) # PreviousIds(1)
    /\ FetchedIds(1) \subseteq PreviousIds(1)
    /\ ReusedVerbatim(1)

\* the drafts of one thread of one contact
DraftsFor(q, key, tid) ==
    SelectSeq(q, LAMBDA d : d.contact_id = key /\ d.thread_id = tid)

Range(q) == {q[k] : k \in 1..Len(q)}

\* the draft step ran for a fetched thread of the i-th contact in this cycle
DraftStepRan(i, tid) == CallsFor(i, "reply", tid) # {}

\* the draft step ran for a thread that already had a draft at the same
\* last_message_ts, or only drafts at older ones
RepeatedDraftStep(i, tid) ==
    /\ DraftStepRan(i, tid)
    /\ \E d \in Range(DraftsFor(lastCycle.draftsBefore, KeyOf(i), tid)) :
          d.last_message_ts
             = ThreadOf(lastCycle.fetched[i].threads, tid).last_message_ts

AdvancedDraftStep(i, tid) ==
    /\ DraftStepRan(i, tid)
    /\ DraftsFor(lastCycle.draftsBefore, KeyOf(i), tid) # <<>>
    /\ \A d \in Range(DraftsFor(lastCycle.draftsBefore, KeyOf(i), tid)) :
          d.last_message_ts
             < ThreadOf(lastCycle.fetched[i].threads, tid).last_message_ts

\* C13: after the draft step has run for a thread, the queue holds exactly
\* one pending_review draft of that thread at the thread's last_message_ts;
\* a run at a last_message_ts that already has a draft adds none, and a run
\* after the last_message_ts has advanced adds one more.
C13_DraftDedup ==
    CycleDone =>
      \A i \in Contacts : \A tid \in FetchedIds(i) :
         LET ts  == ThreadOf(lastCycle.fetched[i].threads, tid).last_message_ts
             old == DraftsFor(lastCycle.draftsBefore, KeyOf(i), tid)
             new == DraftsFor(drafts, KeyOf(i), tid)
         IN  /\ DraftStepRan(i, tid) =>
                   Cardinality({k \in 1..Len(new) :
                                   /\ new[k].status = "pending_review"
                                   /\ new[k].last_message_ts = ts}) = 1
             /\ RepeatedDraftStep(i, tid) => new = old
             /\ AdvancedDraftStep(i, tid) => Len(new) = Len(old) + 1

C13_Witness ==
    /\ CycleDone
    /\ \E i \in Contacts : \E tid, tid2 \in FetchedIds(i) :
          /\ RepeatedDraftStep(i, tid)
          /\ AdvancedDraftStep(i, tid2)
          /\ Len(DraftsFor(drafts, KeyOf(i), tid2)) = 2

\* the importance classify_email gave the fetched thread in this cycle
ImportanceOf(i, tid) == ThreadOf(lastCycle.merged[i].threads, tid).importance

\* C15: a draft is enqueued for a thread only if the thread's classified
\* importance, in lower case, is none of low, spam, junk, ignore; for a thread
\* classified Low no draft is created and no completion call for a reply is
\* made.
C15_NoDraftForLowValueThread ==
    \A i \in Contacts : \A tid \in FetchedIds(i) :
       Summarized(i) =>
          /\ DraftsFor(drafts, KeyOf(i), tid)
                 # DraftsFor(lastCycle.draftsBefore, KeyOf(i), tid)
                => Lower(ImportanceOf(i, tid)) \notin LowValue
          /\ ImportanceOf(i, tid) = "Low" =>
                /\ CallsFor(i, "reply", tid) = {}
                /\ DraftsFor(drafts, KeyOf(i), tid)
                      = DraftsFor(lastCycle.draftsBefore, KeyOf(i), tid)

C15_Witness ==
    \E i \in Contacts : \E tid, tid2 \in FetchedIds(i) :
       /\ Summarized(i)
       /\ ImportanceOf(i, tid) = "Low"
       /\ CallsFor(i, "thread", tid) # {}
       /\ ImportanceOf(i, tid2) # "Low"
       /\ Len(DraftsFor(drafts, KeyOf(i), tid2))
             = Len(DraftsFor(lastCycle.draftsBefore, KeyOf(i), tid2)) + 1

(***************************************************************************)
(* dashboard_server.py: the operations on reply drafts.  A draft's id is   *)
(* its position in the queue; get_draft and update_draft are the queue's   *)
(* operations as section 4.5 of the specification gives their contract.    *)
(***************************************************************************)
MaxDrafts == 2

DraftIds == 1..MaxDrafts

\* get_draft(id) returns the draft, or None for an unknown id
HasDraft(q, draft_id) == draft_id \in 1..Len(q)

get_draft(q, draft_id) == q[draft_id]

\* update_draft(id, **fields): the fields given replace the draft's
update_draft(q, draft_id, status, generated_reply) ==
    IF draft_id \notin 1..Len(q) THEN q
    ELSE [q EXCEPT ![draft_id] =
            [@ EXCEPT !.status = IF status = Absent THEN @ ELSE status,
                      !.generated_reply = IF generated_reply = Absent THEN @
                                          ELSE generated_reply]]

\* str.strip() on the reply texts used
Strip(text) == IF text = " " THEN "" ELSE text

ReplyTexts == {"edited", " "}

\* save_draft
save_draft(q, draft_id, reply_text) ==
    IF ~HasDraft(q, draft_id) THEN q
    ELSE update_draft(q, draft_id, Absent, reply_text)

\* reject_draft
reject_draft(q, draft_id) ==
    IF ~HasDraft(q, draft_id) THEN q
    ELSE update_draft(q, draft_id, "rejected", Absent)

\* send_draft; sendOk: whether _send_email returns
send_draft(q, draft_id, sendOk) ==
    IF ~HasDraft(q, draft_id) THEN q
    ELSE IF Strip(get_draft(q, draft_id).generated_reply) = "" THEN q
    ELSE IF ~sendOk THEN q
    ELSE update_draft(q, draft_id, "sent", Absent)

\* send_reply; found: whether the contact entry and the thread's latest
\* message are found; draft_id 0 stands for None
send_reply(q, reply_text, draft_id, found, sendOk) ==
    IF ~found \/ ~sendOk THEN q
    ELSE IF draft_id = 0 THEN q
    ELSE update_draft(q, draft_id, "sent", reply_text)

\* the provider enqueues a draft for a thread of contact a
EnqueueDraft ==
    /\ Len(drafts) < MaxDrafts
    /\ \E tid \in {"t1", "t2"}, last_ts \in 1..2 :
          drafts' = enqueue_reply_draft(drafts,
                        [source |-> "gmail", email |-> "a@x.com"], tid,
                        "recap1",
                        classify_email("a@x.com", "hello", "registrar deadline"),
                        Msg("registrar deadline"), last_ts, modelUp).drafts
    /\ UNCHANGED <<sheetVars, fileVars, cacheVars, now, mailbox, records, lastCycle>>

SaveDraft ==
    /\ \E draft_id \in DraftIds, reply_text \in ReplyTexts :
          drafts' = save_draft(drafts, draft_id, reply_text)
    /\ UNCHANGED <<sheetVars, fileVars, cacheVars, now, mailbox, records, lastCycle>>

RejectDraft ==
    /\ \E draft_id \in DraftIds :
          drafts' = reject_draft(drafts, draft_id)
    /\ UNCHANGED <<sheetVars, fileVars, cacheVars, now, mailbox, records, lastCycle>>

SendDraft ==
    /\ \E draft_id \in DraftIds, sendOk \in BOOLEAN :
          drafts' = send_draft(drafts, draft_id, sendOk)
    /\ UNCHANGED <<sheetVars, fileVars, cacheVars, now, mailbox, records, lastCycle>>

SendReply ==
    /\ \E draft_id \in DraftIds \cup {0}, reply_text \in ReplyTexts,
          found \in BOOLEAN, sendOk \in BOOLEAN :
          drafts' = send_reply(drafts, reply_text, draft_id, found, sendOk)
    /\ UNCHANGED <<sheetVars, fileVars, cacheVars, now, mailbox, records, lastCycle>>

InitDrafts ==
    /\ sheet = <<>>
    /\ now = 1
    /\ upsertCalls = 0
    /\ lastUpsert = NoUpsert
    /\ FilesIdle
    /\ cache = NoKeys
    /\ modelUp = TRUE
    /\ lastOp = NoOp
    /\ AggIdle

NextDrafts ==
    \/ EnqueueDraft
    \/ SaveDraft
    \/ RejectDraft
    \/ SendDraft
    \/ SendReply

SpecDrafts == InitDrafts /\ [][NextDrafts]_vars

\* C14: through reject_draft, send_draft and send_reply a draft that is
\* sent never becomes rejected, a draft that is rejected never becomes
\* sent, and a draft becomes sent only from approved.
C14_DraftLifecycle ==
    [][\A draft_id \in 1..Len(drafts) :
          /\ drafts[draft_id].status = "sent"
                => drafts'[draft_id].status # "rejected"
          /\ drafts[draft_id].status = "rejected"
                => drafts'[draft_id].status # "sent"
          /\ (drafts[draft_id].status # "sent"
                /\ drafts'[draft_id].status = "sent")
                => drafts[draft_id].status = "approved"]_vars

(***************************************************************************)
(* Summarizer/summarize_helper.py: summarize_thread_logic, and             *)
(* auto_summarizer_loop.py: safe_summarize_thread.  A thread_obj is a list *)
(* of message dicts, a list holding something that is no dict, a string or *)
(* None.                                                                   *)
(***************************************************************************)
MaxRetries == 2

ThreadObj(kind, items) == [kind |-> kind, items |-> items]

ThreadObjs ==
    { ThreadObj("list", <<>>),
      ThreadObj("list", <<Msg("registrar deadline")>>),
      ThreadObj("list", <<Msg("newsletter"), Msg("registrar deadline")>>),
      ThreadObj("badlist", <<>>),
      ThreadObj("str", <<Msg("newsletter")>>),
      ThreadObj("none", <<>>) }

\* summarize_text
summarize_text(text, up) == run_groq_model("text:" \o text, up)

\* lines 21-43 of summarize_thread_logic, after a cache miss that left the
\* cache c: m.get on something that is no dict raises, which line 45 turns
\* into an error result
SummarizeObj(c, source, contact_email, thread_id, thread_obj, t, up) ==
    IF thread_obj.kind \in {"badlist", "none"}
    THEN [ raised |-> FALSE, error |-> TRUE, value |-> "AttributeError",
           used_cache |-> FALSE, calls |-> 0, cache |-> c ]
    ELSE IF thread_obj.items = <<>>
    THEN [ raised |-> FALSE, error |-> FALSE,
           value |-> "No meaningful content to summarize.",
           used_cache |-> FALSE, calls |-> 0, cache |-> c ]
    ELSE [ raised |-> FALSE, error |-> FALSE,
           value |-> summarize_text(JoinThread(thread_obj.items), up),
           used_cache |-> FALSE, calls |-> 1,
           cache |-> set_cache(c, source, contact_email, thread_id,
                         summarize_text(JoinThread(thread_obj.items), up), t) ]

\* lines 16-19 and on: g is what _get_from_cache returned
AfterCacheRead(g, source, contact_email, thread_id, thread_obj, t, up) ==
    IF g.value # Absent /\ g.value # ""
    THEN [ raised |-> FALSE, error |-> FALSE, value |-> g.value,
           used_cache |-> TRUE, calls |-> 0, cache |-> g.cache ]
    ELSE SummarizeObj(g.cache, source, contact_email, thread_id, thread_obj,
                      t, up)

\* summarize_thread_logic without text (safe_summarize_thread passes none):
\* every exception is caught at line 45, so raised is never TRUE
summarize_thread_logic(c, source, contact_email, thread_id, thread_obj, force, t, up) ==
    AfterCacheRead(
        get_from_cache(IF force THEN clear_contact_cache(c, source, contact_email)
                       ELSE c,
                       source, contact_email, thread_id, t),
        source, contact_email, thread_id, thread_obj, t, up)

\* "rate_limit" in msg.lower() or "429" in msg, on the messages used
IsRateLimit(msg) == msg \in {"rate_limit_exceeded", "Error code: 429"}

\* the result of the attempt-th iteration of the loop of lines 164-175: r is
\* what summarize_thread_logic did, rest the result of the later iterations
AfterAttempt(r, attempt, delay, waits, rest) ==
    IF ~r.raised
    THEN [ raised |-> FALSE, error |-> r.error, value |-> r.value,
           attempts |-> attempt, waits |-> waits, calls |-> r.calls,
           cache |-> r.cache ]
    ELSE IF IsRateLimit(r.value) THEN rest
    ELSE [ raised |-> FALSE, error |-> TRUE, value |-> r.value,
           attempts |-> attempt, waits |-> waits, calls |-> r.calls,
           cache |-> r.cache ]

RECURSIVE SafeLoop(_, _, _, _, _, _, _, _, _, _)
SafeLoop(c, source, contact_email, thread_id, thread_obj, max_retries, attempt, delay, t, up) ==
    IF attempt > max_retries
    THEN [ raised |-> FALSE, error |-> TRUE, value |-> "Max retries exceeded",
           attempts |-> max_retries,
           waits |-> [k \in 1..max_retries |-> 2 ^ k], calls |-> 0,
           cache |-> c ]
    ELSE AfterAttempt(
             summarize_thread_logic(c, source, contact_email, thread_id,
                                    thread_obj, FALSE, t, up),
             attempt, delay, [k \in 1..(attempt - 1) |-> 2 ^ k],
             SafeLoop(c, source, contact_email, thread_id, thread_obj,
                      max_retries, attempt + 1, delay * 2, t + delay, up))

\* safe_summarize_thread with the error result of summarize_thread_logic
\* raised instead of returned
safe_summarize_thread_RaisesOnError(c, source, contact_email, thread_id, thread_obj, max_retries, t, up) ==
    LET r == SafeLoop(c, source, contact_email, thread_id, thread_obj,
                      max_retries, 1, 2, t, up)
    IN  [r EXCEPT !.raised = r.error /\ r.attempts > 0]

\* safe_summarize_thread
safe_summarize_thread(c, source, contact_email, thread_id, thread_obj, max_retries, t, up) ==
    SafeLoop(c, source, contact_email, thread_id, thread_obj, max_retries,
             1, 2, t, up)

\* one call of safe_summarize_thread; when the completion API is down, the
\* call to it fails with a rate-limit error or with another error
CallSafeSummarizeThread ==
    \E thread_obj \in ThreadObjs, max_retries \in 0..MaxRetries,
       failure \in {"rate_limit_exceeded", "timeout"} :
       LET r == safe_summarize_thread(cache, "gmail", "a@x.com", "t1",
                                      thread_obj, max_retries, now, modelUp)
       IN  /\ cache' = r.cache
           /\ lastOp' = [ op |-> "safe_summarize_thread",
                          thread_obj |-> thread_obj,
                          max_retries |-> max_retries, at |-> now,
                          failed |-> IF r.calls > 0 /\ ~modelUp THEN failure
                                     ELSE "",
                          raised |-> r.raised, error |-> r.error,
                          value |-> r.value, attempts |-> r.attempts,
                          waits |-> r.waits, calls |-> r.calls,
                          before |-> cache ]
           /\ UNCHANGED <<sheetVars, fileVars, now, modelUp, aggVars>>

NextRetry ==
    \/ Tick
    \/ ToggleModel
    \/ CallSafeSummarizeThread

SpecRetry == InitCache /\ [][NextRetry]_vars

SafeCallDone == lastOp.op = "safe_summarize_thread"

\* C16: when the completion call fails with a rate-limit error,
\* safe_summarize_thread retries, waiting 2, 4, 8, ... seconds between the
\* attempts, for max_retries attempts, and then returns an error result; a
\* failure that is no rate-limit error is returned as an error result after
\* a single attempt.
C16_RateLimitIsRetriedWithBackoff ==
    (SafeCallDone /\ lastOp.failed # "") =>
        IF IsRateLimit(lastOp.failed)
        THEN /\ lastOp.error
             /\ lastOp.attempts = lastOp.max_retries
             /\ \A k \in 1..Len(lastOp.waits) : lastOp.waits[k] = 2 ^ k
             /\ Len(lastOp.waits) >= lastOp.max_retries - 1
        ELSE /\ lastOp.error
             /\ lastOp.attempts = 1

\* C17: for every behaviour of the completion model, safe_summarize_thread
\* returns after at most max_retries attempts and does not raise.
C17_SafeSummarizeThreadReturns ==
    SafeCallDone =>
        /\ ~lastOp.raised
        /\ lastOp.attempts <= lastOp.max_retries
        /\ lastOp.calls <= lastOp.attempts

C17_Witness ==
    /\ SafeCallDone
    /\ lastOp.failed # ""
    /\ lastOp.max_retries = MaxRetries
    /\ lastOp.attempts = 1
    /\ ~lastOp.raised

(***************************************************************************)
(* The loop of run_unified_agent over mailboxes with malformed threads,    *)
(* while the completion API goes down and comes back.  Thread t1 is from   *)
(* contact a; thread t2 is from contact b and holds what get_message can   *)
(* return for it.                                                          *)
(***************************************************************************)
MsgOfB(sender, date) ==
    [sender |-> sender, subject |-> "hello", body |-> "newsletter",
     date |-> date]

\* something that is no dict in a thread's message list
NonDict == [raw |-> "text"]

ThreadsOfB ==
    { <<MsgOfB("b@y.org", 1)>>,
      <<NonDict, MsgOfB("b@y.org", 1)>>,
      <<MsgOfB("", 1), MsgOfB("b@y.org", 1)>>,
      <<MsgOfB("", 1)>>,
      <<MsgOfB("b@y.org", UnparseableDate)>>,
      <<NonDict>> }

\* a thread's message list holds no dict
NoValidMessage(thread_messages) == CleanMessages(thread_messages) = <<>>

\* the orders in which list_threads can return the threads S
Listings(S) ==
    {l \in UNION {[1..n -> S] : n \in 0..Cardinality(S)} :
        \A i, j \in 1..Len(l) : l[i] = l[j] => i = j}

\* one cycle on any listing of threads that have messages
CycleAny ==
    /\ lastCycle.n < MaxCycles
    /\ \E l \in Listings({tid \in ThreadIds : mailbox[tid] # <<>>}) :
          CycleOn(l, from_gmail(l, mailbox, now))

InitFaults ==
    /\ sheet = <<>>
    /\ now = 2
    /\ upsertCalls = 0
    /\ lastUpsert = NoUpsert
    /\ FilesIdle
    /\ cache = NoKeys
    /\ modelUp = TRUE
    /\ lastOp = NoOp
    /\ \E b \in ThreadsOfB :
          mailbox = [tid \in ThreadIds |->
                        IF tid = "t1" THEN <<MailMsg("registrar deadline", 1)>>
                        ELSE IF tid = "t2" THEN b ELSE <<>>]
    /\ records = NoKeys
    /\ drafts = <<>>
    /\ lastCycle = NoCycle

NextFaults ==
    \/ ToggleModel
    \/ Tick
    \/ CycleAny

SpecFaults == InitFaults /\ [][NextFaults]_vars

\* a listed thread is in the records the cycle saved
Saved(tid) ==
    \E key \in DOMAIN records : tid \in IdsOf(records[key].threads)

ListedThreads == {lastCycle.listing[k] : k \in 1..Len(lastCycle.listing)}

\* what the last cycle's get_summaries does on the same input with the
\* completion API up
SameCycleWithModelUp ==
    get_summaries(lastCycle.fetched, lastCycle.before, lastCycle.cacheBefore,
                  lastCycle.draftsBefore, lastCycle.at, TRUE)

\* C18: a cycle whose completion calls fail raises no exception that the
\* same cycle would not raise with the completion API up, and unless it
\* raises it processes every fetched contact and reaches the cache save and
\* the sheet sync.
C18_ModelFailureNeverAbortsCycle ==
    (lastCycle.n > 0 /\ ~lastCycle.up) =>
        /\ lastCycle.raised => SameCycleWithModelUp.raised
        /\ (~lastCycle.raised /\ lastCycle.fetched # <<>>) =>
              /\ lastCycle.reached = "sync"
              /\ Len(lastCycle.merged) = Len(lastCycle.fetched)
              /\ \A tid \in ListedThreads : Saved(tid)

C18_Witness ==
    /\ lastCycle.n > 0
    /\ ~lastCycle.up
    /\ Len(lastCycle.fetched) = 2
    /\ \E k \in 1..Len(lastCycle.calls) : lastCycle.calls[k].kind = "thread"
    /\ lastCycle.reached = "sync"
    /\ Saved("t1") /\ Saved("t2")

\* C19: a thread with a message that is no dict, a message without sender,
\* an unparseable date or no valid message at all costs the cycle no other
\* thread: the cycle does not raise, and every listed thread that has a
\* valid message is in the saved records.
C19_MalformedInputIsSkipped ==
    lastCycle.n > 0 =>
        /\ ~lastCycle.raised
        /\ \A tid \in ListedThreads :
              ~NoValidMessage(mailbox[tid]) => Saved(tid)

(***************************************************************************)
(* The cache file Summaries/summaries_cache.json.  GroqSummarizer reads it *)
(* when it is constructed and rewrites it in _save_cache; load_cache and   *)
(* save_cache of auto_summarizer_loop.py read and write the same path.  A  *)
(* JSON document is the dict it holds.                                     *)
(***************************************************************************)
\* the top-level keys of the document save_cache writes
LoopKeys == {"seen", "summaries", "last_updated"}

\* the document save_cache writes (lines 141-156)
LoopDoc(summaries, t) ==
    [k \in LoopKeys |-> IF k = "summaries" THEN summaries
                        ELSE IF k = "seen" THEN {} ELSE t]

\* _cleanup_expired_cache with the comparison >= in place of >
ExpiredKeys_AtTtl(c, t) ==
    {k \in DOMAIN c \ LoopKeys :
        c[k].timestamp # NoValue /\ t - c[k].timestamp >= TtlSeconds}

\* _cleanup_expired_cache on the cache c at time t: the entries with a
\* timestamp older than the TTL
ExpiredKeys(c, t) ==
    {k \in DOMAIN c \ LoopKeys :
        c[k].timestamp # NoValue /\ t - c[k].timestamp > TtlSeconds}

\* GroqSummarizer.__init__ (lines 35-50): [cache, file]; a file that is no
\* JSON leaves an empty cache and stays as it is; the cleanup rewrites the
\* file when it removed something
groq_init(file, t) ==
    LET loaded  == IF file.kind = "json" THEN file.data ELSE NoKeys
        expired == ExpiredKeys(loaded, t)
        cleaned == [k \in DOMAIN loaded \ expired |-> loaded[k]]
    IN  [ cache |-> cleaned,
          file  |-> IF expired # {} THEN JsonFile(cleaned) ELSE file ]

\* load_cache (lines 102-138): [summaries, files]; a file that is no JSON is
\* renamed to the .corrupt path
load_cache(f) ==
    IF f.cache.kind = "none" THEN [summaries |-> NoKeys, files |-> f]
    ELSE IF f.cache.kind = "garbage"
    THEN [ summaries |-> NoKeys,
           files |-> [cache |-> NoFile, corrupt |-> f.cache] ]
    ELSE [ summaries |-> IF Has(f.cache.data, "summaries")
                         THEN f.cache.data["summaries"] ELSE NoKeys,
           files |-> f ]

\* a process imports the summarizer: GroqSummarizer()
StartSummarizer ==
    /\ "summarizer" \notin started
    /\ cache' = groq_init(files.cache, now).cache
    /\ files' = [files EXCEPT !.cache = groq_init(files.cache, now).file]
    /\ started' = started \cup {"summarizer"}
    /\ lastOp' = [ op |-> "init", at |-> now, file |-> files.cache,
                   value |-> groq_init(files.cache, now).cache,
                   after |-> groq_init(files.cache, now).file ]
    /\ UNCHANGED <<sheetVars, now, modelUp, aggVars>>

\* _set_cache of a thread summary, which ends in _save_cache
SummarizerSetCache ==
    /\ "summarizer" \in started
    /\ \E tid \in {"t1", "t2"} :
          /\ cache' = set_cache(cache, "gmail", "a@x.com", tid, "recap1", now)
          /\ files' = [files EXCEPT !.cache =
                          JsonFile(set_cache(cache, "gmail", "a@x.com", tid,
                                             "recap1", now))]
    /\ UNCHANGED <<sheetVars, now, modelUp, lastOp, aggVars, started>>

\* summarize_contact_threads for a thread id, which ends in _save_cache; for
\* an id without a cache entry it stores an entry without a timestamp
SummarizerContactCall ==
    /\ "summarizer" \in started
    /\ DOMAIN cache \cap LoopKeys = {}
    /\ cache' = summarize_contact_threads(cache, <<"text">>, "gmail",
                     "a@x.com", <<"t3">>, FALSE, now, modelUp).cache
    /\ files' = [files EXCEPT !.cache = JsonFile(cache')]
    /\ UNCHANGED <<sheetVars, now, modelUp, lastOp, aggVars, started>>

\* run_unified_agent calls load_cache, after its imports
LoadCache ==
    /\ "summarizer" \in started
    /\ "loop" \notin started
    /\ records' = load_cache(files).summaries
    /\ files' = load_cache(files).files
    /\ started' = started \cup {"loop"}
    /\ UNCHANGED <<sheetVars, now, cacheVars, mailbox, drafts, lastCycle>>

\* save_cache at the end of a cycle
SaveCache ==
    /\ "loop" \in started
    /\ files' = [files EXCEPT !.cache = JsonFile(LoopDoc(records, now))]
    /\ UNCHANGED <<sheetVars, now, cacheVars, aggVars, started>>

\* the process ends; killed in the middle of a write, it leaves a cache
\* file that is no JSON
Exit ==
    /\ started # {}
    /\ \E torn \in BOOLEAN :
          files' = IF torn /\ files.cache.kind # "none"
                   THEN [files EXCEPT !.cache = Garbage] ELSE files
    /\ started' = {}
    /\ cache' = NoKeys
    /\ records' = NoKeys
    /\ UNCHANGED <<sheetVars, now, modelUp, lastOp, mailbox, drafts, lastCycle>>

InitFiles ==
    /\ sheet = <<>>
    /\ now = 0
    /\ upsertCalls = 0
    /\ lastUpsert = NoUpsert
    /\ FilesIdle
    /\ cache = NoKeys
    /\ modelUp = TRUE
    /\ lastOp = NoOp
    /\ AggIdle

NextFiles ==
    \/ Tick
    \/ StartSummarizer
    \/ SummarizerSetCache
    \/ SummarizerContactCall
    \/ LoadCache
    \/ SaveCache
    \/ Exit

SpecFiles == InitFiles /\ [][NextFiles]_vars

\* C20: a cache file that is no JSON when a component loads it is kept
\* under the .corrupt path and an empty cache is used, and no step replaces
\* or removes the corrupt content without keeping it there.
C20_CorruptCacheIsPreserved ==
    [][files.cache = Garbage =>
          /\ files'.cache = Garbage \/ files'.corrupt = Garbage
          /\ "summarizer" \in started' \ started =>
                 files'.corrupt = Garbage /\ cache' = NoKeys
          /\ "loop" \in started' \ started =>
                 files'.corrupt = Garbage /\ records' = NoKeys]_vars

(***************************************************************************)
(* The whole cycle of run_unified_agent: get_summaries, the merge,         *)
(* save_cache and push_cached_summaries_to_sheets.  The store may fail to  *)
(* be read or written, and the Gmail API may fail to list the threads.     *)
(***************************************************************************)
\* the document get_summaries writes to the same path (lines 447-461): its
\* "summaries" is the list of the records it returns
ProviderDoc(merged_summaries, t) ==
    [k \in LoopKeys |-> IF k = "summaries" THEN merged_summaries
                        ELSE IF k = "seen" THEN {} ELSE t]

\* a thread of a cached record as the dict of its text fields
ThreadPairs(th) ==
    << <<"id", th.id>>, <<"subject", th.subject>>, <<"preview", th.preview>>,
       <<"summary", th.summary>>, <<"importance", th.importance>> >>

\* the row push_cached_summaries_to_sheets builds of a cached record (lines
\* 69-112): the threads carry none of the date fields it looks for, so
\* last_summary is the record's timestamp
CacheRow(entry) ==
    [ id              |-> entry.id,
      email           |-> entry.email,
      source          |-> entry.source,
      role            |-> entry.role,
      role_confidence |-> entry.role_confidence,
      contact_summary |-> entry.summary,
      threads         |-> PyList([i \in 1..Len(entry.threads) |->
                                     ThreadPairs(entry.threads[i])]),
      last_summary    |-> IsoDate(entry.timestamp) ]

\* list(summaries_dict.values()) turned into rows
RECURSIVE CacheRowsOf(_, _)
CacheRowsOf(summaries, keys) ==
    IF keys = {} THEN <<>>
    ELSE LET k == CHOOSE x \in keys : TRUE
         IN  <<CacheRow(summaries[k])>> \o CacheRowsOf(summaries, keys \ {k})

CacheRows(summaries) == CacheRowsOf(summaries, DOMAIN summaries)

\* the store after the sync step of a cycle that got as far as `reached`;
\* u is what upsert_summaries does with the rows
SheetAfter(reached, rows, readOk, u) ==
    IF reached # "sync" \/ rows = <<>>
    THEN UNCHANGED sheetVars
    ELSE /\ sheet' = u.cells
         /\ upsertCalls' = upsertCalls + 1
         /\ lastUpsert' =
               [ rows     |-> rows,
                 readOk   |-> readOk,
                 attempt  |-> u.attempt,
                 wrote    |-> u.wrote,
                 done     |-> readOk /\ (u.attempt => u.wrote),
                 inserts  |-> u.inserts,
                 updates  |-> u.updates,
                 at       |-> now,
                 before   |-> sheet,
                 prevRows |-> lastUpsert.rows,
                 prevDone |-> lastUpsert.done,
                 matrix   |-> u.matrix ]

\* lines 386-405 of auto_summarizer_loop.py on the merged cache
SaveAndPush(reached, provider_doc, merged, rows, readOk, writeOk) ==
    /\ records' = merged
    /\ files' = [files EXCEPT !.cache =
                    IF reached = "sync" THEN JsonFile(LoopDoc(merged, now))
                    ELSE IF reached = "empty" THEN JsonFile(provider_doc)
                    ELSE @]
    /\ SheetAfter(reached, rows, readOk,
                  UpsertSummaries(sheet, rows, now, readOk, writeOk))

\* a whole cycle; r is what get_summaries did
SyncEffect(listing, all_data, r, merged, readOk, writeOk) ==
    /\ cache' = r.cache
    /\ drafts' = r.drafts
    /\ lastCycle' =
          [ at |-> now, listing |-> listing, fetched |-> all_data,
            before |-> records, cacheBefore |-> cache,
            draftsBefore |-> drafts, merged |-> r.merged,
            reused |-> r.reused, calls |-> r.calls,
            raised |-> r.raised, n |-> lastCycle.n + 1,
            up |-> modelUp, reached |-> ReachedBy(r) ]
    /\ SaveAndPush(ReachedBy(r), ProviderDoc(r.merged, now), merged,
                   CacheRows(merged), readOk, writeOk)
    /\ UNCHANGED <<now, modelUp, lastOp, mailbox, started>>

SyncAfter(listing, all_data, r, readOk, writeOk) ==
    SyncEffect(listing, all_data, r,
               IF r.raised THEN records ELSE MergeSummaries(records, r.merged),
               readOk, writeOk)

SyncOn(listing, all_data, readOk, writeOk) ==
    SyncAfter(listing, all_data,
              get_summaries(all_data, records, cache, drafts, now, modelUp),
              readOk, writeOk)

\* the threads list_threads returns: the latest `limit` threads, which are
\* all the threads of this mailbox, or none when the Gmail API fails
Listed(gmailOk) ==
    IF gmailOk THEN {tid \in ThreadIds : mailbox[tid] # <<>>} ELSE {}

CycleSync ==
    /\ lastCycle.n < MaxCycles
    /\ \E gmailOk \in BOOLEAN, readOk \in BOOLEAN, writeOk \in BOOLEAN :
          SyncOn(ByRecency(Listed(gmailOk), mailbox),
                 from_gmail(ByRecency(Listed(gmailOk), mailbox), mailbox, now),
                 readOk, writeOk)

InitSync ==
    /\ sheet = <<>>
    /\ now = 1
    /\ upsertCalls = 0
    /\ lastUpsert = NoUpsert
    /\ files = [cache |-> NoFile, corrupt |-> NoFile]
    /\ started = {"summarizer", "loop"}
    /\ cache = NoKeys
    /\ modelUp = TRUE
    /\ lastOp = NoOp
    /\ AggIdle

NextSync ==
    \/ Receive
    \/ CycleSync

SpecSync == InitSync /\ [][NextSync]_vars

\* the previous cycle tried the sync and the store failed
SyncFailed ==
    /\ lastCycle.reached = "sync"
    /\ lastUpsert.at = lastCycle.at
    /\ ~lastUpsert.done

\* C21: a failure of the store never stops the loop and never changes the
\* local cache; a cycle that syncs has saved the local cache first, and the
\* cycle after a failed sync attempts the upsert again with all cached
\* contact records.
C21_FailedSyncIsRetriedNextCycle ==
    [][lastCycle'.n = lastCycle.n + 1 =>
          /\ "loop" \in started'
          /\ lastCycle'.reached = "sync" =>
                /\ records' = MergeSummaries(records, lastCycle'.merged)
                /\ files'.cache = JsonFile(LoopDoc(records', now))
          /\ SyncFailed =>
                /\ upsertCalls' = upsertCalls + 1
                /\ lastUpsert'.rows = CacheRows(records')]_vars

(***************************************************************************)
(* summarize_contact_threads called on a cache whose thread entries were   *)
(* written by summarize_thread (with a classification) or by _set_cache    *)
(* (without one).                                                          *)
(***************************************************************************)
\* one-message threads that classify as Admin and as General External
RoleThreads == {<<Msg("registrar deadline")>>, <<Msg("newsletter")>>}

\* the thread id lists of a call: distinct ids of the contact, or none
ThreadIdLists ==
    {<<>>, <<"t1">>, <<"t1", "t2", "t3">>, <<"t3", "t2", "t1">>}

\* summarize_thread on one of the contact's threads
SummarizeOneThread ==
    \E msgs \in RoleThreads, tid \in ThreadIds :
       LET r == summarize_thread(cache, msgs, "gmail", "a@x.com", tid, FALSE,
                                 now, modelUp)
       IN  /\ cache' = r.cache
           /\ lastOp' = [ op |-> "summarize_thread", source |-> "gmail",
                          contact |-> "a@x.com", tid |-> tid, msgs |-> msgs,
                          force |-> FALSE, at |-> now, raised |-> r.raised,
                          value |-> r.value, calls |-> r.calls,
                          before |-> cache ]
           /\ UNCHANGED <<sheetVars, fileVars, now, modelUp, aggVars>>

\* _set_cache on one of the contact's threads, as summarize_thread_logic
\* calls it
SetOneThread ==
    \E tid \in ThreadIds :
       /\ cache' = set_cache(cache, "gmail", "a@x.com", tid, "note", now)
       /\ lastOp' = [ op |-> "set_cache", source |-> "gmail",
                      contact |-> "a@x.com", tid |-> tid, msgs |-> <<>>,
                      force |-> FALSE, at |-> now, raised |-> FALSE,
                      value |-> "note", calls |-> 0, before |-> cache ]
       /\ UNCHANGED <<sheetVars, fileVars, now, modelUp, aggVars>>

ContactCallEffect(thread_ids, force, r) ==
    /\ cache' = r.cache
    /\ lastOp' = [ op |-> "summarize_contact_threads", source |-> "gmail",
                   contact |-> "a@x.com", thread_ids |-> thread_ids,
                   force |-> force, at |-> now, value |-> r.entry,
                   before |-> cache ]

CallSummarizeContactThreads ==
    /\ \E thread_ids \in ThreadIdLists, force \in BOOLEAN :
          ContactCallEffect(thread_ids, force,
              summarize_contact_threads(cache, <<"text">>, "gmail", "a@x.com",
                                        thread_ids, force, now, modelUp))
    /\ UNCHANGED <<sheetVars, fileVars, now, modelUp, aggVars>>

NextContact ==
    \/ SummarizeOneThread
    \/ SetOneThread
    \/ CallSummarizeContactThreads

SpecContact == InitCache /\ [][NextContact]_vars

ContactCallDone == lastOp.op = "summarize_contact_threads"

\* the known roles cached for the call's thread ids when the vote is taken
KnownRoles ==
    CachedRoles(IF lastOp.force
                THEN clear_contact_cache(lastOp.before, "gmail", "a@x.com")
                ELSE lastOp.before,
                "gmail", "a@x.com", lastOp.thread_ids)

\* C22: the contact role returned by summarize_contact_threads is a most
\* frequent one of the known roles cached for the thread ids, and with no
\* known role it is a role of the classifier's set, never Unknown.
C22_ContactRoleIsMajorityOrClassified ==
    ContactCallDone /\ lastOp.thread_ids # <<>> =>
       IF KnownRoles # <<>>
       THEN \A i \in 1..Len(KnownRoles) :
               CountOf(KnownRoles, lastOp.value.role)
                  >= CountOf(KnownRoles, KnownRoles[i].role)
       ELSE lastOp.value.role \in {Roles[i] : i \in 1..Len(Roles)}

(***************************************************************************)
(* Cache keys of several contacts.  A Gmail contact is the From header of  *)
(* a message and a thread id is whatever the provider hands out, so both   *)
(* may contain a colon.                                                    *)
(***************************************************************************)
\* the (source, contact_email, thread_id) triples the calls are made with
KeyTriples ==
    { <<"gmail", "a@x.com", "t1">>, <<"gmail", "a@x.com", "b:t1">>,
      <<"gmail", "a@x.com.pk", "t1">>, <<"gmail", "a@x.com:b", "t1">>,
      <<"gmail", "a@x.com:b", "t2">>, <<"outlook", "a@x.com", "t1">> }

KeyOfTriple(p) == get_cache_key(p[1], p[2], p[3])

\* _set_cache for one of the triples; the summary names the contact
SetCacheFor ==
    \E p \in KeyTriples :
       /\ cache' = set_cache(cache, p[1], p[2], p[3], "for " \o p[2], now)
       /\ lastOp' = [ op |-> "set_cache", source |-> p[1], contact |-> p[2],
                      tid |-> p[3], msgs |-> <<>>, force |-> FALSE,
                      at |-> now, raised |-> FALSE,
                      value |-> "for " \o p[2], calls |-> 0,
                      before |-> cache ]
       /\ UNCHANGED <<sheetVars, fileVars, now, modelUp, aggVars>>

\* _get_from_cache for one of the triples
GetCacheFor ==
    \E p \in KeyTriples :
       /\ cache' = get_from_cache(cache, p[1], p[2], p[3], now).cache
       /\ lastOp' = [ op |-> "get_from_cache", source |-> p[1],
                      contact |-> p[2], tid |-> p[3], msgs |-> <<>>,
                      force |-> FALSE, at |-> now, raised |-> FALSE,
                      value |-> get_from_cache(cache, p[1], p[2], p[3],
                                               now).value,
                      calls |-> 0, before |-> cache ]
       /\ UNCHANGED <<sheetVars, fileVars, now, modelUp, aggVars>>

\* _clear_contact_cache for the contact of one of the triples
ClearContact ==
    \E p \in KeyTriples :
       /\ cache' = clear_contact_cache(cache, p[1], p[2])
       /\ lastOp' = [ op |-> "clear_contact_cache", source |-> p[1],
                      contact |-> p[2], tid |-> "", msgs |-> <<>>,
                      force |-> FALSE, at |-> now, raised |-> FALSE,
                      value |-> Absent, calls |-> 0, before |-> cache ]
       /\ UNCHANGED <<sheetVars, fileVars, now, modelUp, aggVars>>

NextKeys ==
    \/ SetCacheFor
    \/ GetCacheFor
    \/ ClearContact

SpecKeys == InitCache /\ [][NextKeys]_vars

\* the triples of the cleared contact
OwnTriples ==
    {p \in KeyTriples : p[1] = lastOp.source /\ p[2] = lastOp.contact}

\* C23: _clear_contact_cache(source, contact) removes every key of that
\* contact and leaves the entries of every other (source, contact) pair as
\* they were, also when the other contact's email starts with the cleared
\* one's.
C23_ClearContactTouchesOnlyThatContact ==
    lastOp.op = "clear_contact_cache" =>
       /\ \A p \in OwnTriples : ~Has(cache, KeyOfTriple(p))
       /\ \A q \in KeyTriples \ OwnTriples :
             /\ Has(lastOp.before, KeyOfTriple(q))
             /\ lastOp.before[KeyOfTriple(q)].summary = "for " \o q[2]
             =>
                /\ Has(cache, KeyOfTriple(q))
                /\ cache[KeyOfTriple(q)] = lastOp.before[KeyOfTriple(q)]

\* C24: two distinct triples (source, contact_email, thread_id) never get
\* the same cache key: what _get_from_cache returns for a triple was stored
\* for that triple.
C24_CacheKeyIsInjective ==
    lastOp.op = "get_from_cache" /\ lastOp.value # Absent =>
       lastOp.value = "for " \o lastOp.contact

(***************************************************************************)
(* The cleanup of expired entries, which runs when GroqSummarizer is       *)
(* constructed on the cache file.  lastOp records the construction: the    *)
(* file it found, the cache it ended with and the file it left.            *)
(***************************************************************************)
\* the summarizer was constructed on a JSON cache file of thread entries
CleanupRan ==
    /\ lastOp.op = "init"
    /\ lastOp.file.kind = "json"
    /\ DOMAIN lastOp.file.data \cap LoopKeys = {}

\* the loaded entries that carry a timestamp, and their age when the
\* cleanup ran
Stamped == {k \in DOMAIN lastOp.file.data :
              lastOp.file.data[k].timestamp # NoValue}

AgeAtCleanup(k) == lastOp.at - lastOp.file.data[k].timestamp

\* C25: _cleanup_expired_cache removes exactly the entries whose age exceeds
\* the TTL (an entry without a timestamp has no age) and leaves the others
\* as they were, and the cache file is written if and only if an entry was
\* removed.
C25_CleanupRemovesExactlyExpired ==
    CleanupRan =>
       /\ DOMAIN lastOp.file.data \ DOMAIN lastOp.value =
             {k \in Stamped : AgeAtCleanup(k) > TtlSeconds}
       /\ DOMAIN lastOp.value \subseteq DOMAIN lastOp.file.data
       /\ \A k \in DOMAIN lastOp.value :
             lastOp.value[k] = lastOp.file.data[k]
       /\ IF DOMAIN lastOp.value # DOMAIN lastOp.file.data
          THEN lastOp.after = JsonFile(lastOp.value)
          ELSE lastOp.after = lastOp.file

\* a cleanup that removed one entry and kept another, one of them exactly
\* as old as the TTL
C25_Witness ==
    /\ CleanupRan
    /\ \E k \in Stamped : AgeAtCleanup(k) > TtlSeconds
    /\ \E k \in Stamped : AgeAtCleanup(k) = TtlSeconds
    /\ lastOp.after # lastOp.file

(***************************************************************************)
(* Calls of the classifier on senders, subjects and bodies that may be     *)
(* absent (None).                                                          *)
(***************************************************************************)
Senders == {Absent, "", "a@x.com", "b@y.org"}

Subjects == {Absent, "", "hello", "dear professor"}

BodyTexts ==
    {Absent, "", "registrar deadline", "newsletter", "my thesis", "policy"}

\* classify_email on values that may be None: the f-string formats a None
\* as text without keywords, and classify_role calls sender_email.lower(),
\* which raises AttributeError on None (line 127)
ClassifyEmailCall(sender, subject, body) ==
    IF sender = Absent
    THEN [raised |-> TRUE, value |-> Absent]
    ELSE [raised |-> FALSE, value |-> classify_email(sender, subject, body)]

CallClassifyEmail ==
    \E sender \in Senders, subject \in Subjects, body \in BodyTexts :
       /\ lastOp' = [ op |-> "classify_email", sender |-> sender,
                      subject |-> subject, body |-> body,
                      raised |-> ClassifyEmailCall(sender, subject, body).raised,
                      value |-> ClassifyEmailCall(sender, subject, body).value ]
       /\ UNCHANGED <<sheetVars, fileVars, now, cache, modelUp, aggVars>>

\* classify_role on the text of a message and its sender
CallClassifyRole ==
    \E sender \in Senders \ {Absent}, subject \in Subjects \ {Absent},
       body \in BodyTexts \ {Absent} :
       /\ lastOp' = [ op |-> "classify_role", sender |-> sender,
                      words |-> EmailText(sender, subject, body),
                      raised |-> FALSE,
                      value |-> classify_role(EmailText(sender, subject, body),
                                              sender) ]
       /\ UNCHANGED <<sheetVars, fileVars, now, cache, modelUp, aggVars>>

NextClassify ==
    \/ CallClassifyEmail
    \/ CallClassifyRole

SpecClassify == InitCache /\ [][NextClassify]_vars

\* C26: classify_email never raises, absent (None) values included, and
\* for empty or absent inputs it returns General External with confidence
\* 0.4 and Medium with confidence 0.4.
C26_ClassifyEmailNeverRaises ==
    lastOp.op = "classify_email" =>
       /\ ~lastOp.raised
       /\ { lastOp.sender, lastOp.subject, lastOp.body } \subseteq {Absent, ""}
             => lastOp.value = [ role |-> "General External",
                                 role_confidence |-> 400,
                                 importance |-> "Medium",
                                 importance_confidence |-> 400 ]

\* the place of a role in the order Admin, Faculty, Student, Industry,
\* External Academic, Government / Organization, General External
PriorityRank(role) ==
    CASE role = "Admin" -> 1
      [] role = "Faculty" -> 2
      [] role = "Student" -> 3
      [] role = "Industry" -> 4
      [] role = "External Academic" -> 5
      [] role = "Government / Organization" -> 6
      [] OTHER -> 7

RoleNames == {Roles[i] : i \in 1..Len(Roles)}

LastScore(role) == RoleScore(role, lastOp.words, lastOp.sender)

\* the roles with the highest score of the last classify_role call
TopRoles ==
    {r \in RoleNames : \A other \in RoleNames : LastScore(r) >= LastScore(other)}

\* C27: classify_role returns a role with the maximum score, and among
\* several roles sharing the highest non-zero score the first in the
\* priority order.
C27_TieGoesToPriorityOrder ==
    lastOp.op = "classify_role" =>
       /\ lastOp.value[1] \in TopRoles
       /\ LastScore(lastOp.value[1]) > 0 =>
             \A r \in TopRoles :
                PriorityRank(lastOp.value[1]) <= PriorityRank(r)

\* a call in which two roles share the highest non-zero score
C27_Witness ==
    /\ lastOp.op = "classify_role"
    /\ Cardinality(TopRoles) > 1
    /\ LastScore(lastOp.value[1]) > 0
    /\ lastOp.value[1] = "Faculty"

(***************************************************************************)
(* The order of the rows upsert_summaries writes.                          *)
(***************************************************************************)
\* the rows of the last write
Written == lastUpsert.matrix

Parseable(row) == row.last_summary.fmt = "iso"

\* C28: whenever upsert_summaries writes, the rows are written with
\* last_summary, parsed to an instant, non-increasing, and the rows whose
\* last_summary cannot be parsed come after all rows with a parseable one.
C28_RowsWrittenLatestFirst ==
    lastUpsert.wrote =>
       \A i, j \in 1..Len(Written) :
          i < j =>
             /\ Parseable(Written[j]) => Parseable(Written[i])
             /\ Parseable(Written[i]) /\ Parseable(Written[j]) =>
                   Written[i].last_summary.t >= Written[j].last_summary.t

\* a write of two rows with different instants and a row without one
C28_Witness ==
    /\ lastUpsert.wrote
    /\ \E i, j, k \in 1..Len(Written) :
          /\ Parseable(Written[i]) /\ Parseable(Written[j])
          /\ Written[i].last_summary.t # Written[j].last_summary.t
          /\ ~Parseable(Written[k])

(***************************************************************************)
(* The order of the completion calls of one contact and the input of its   *)
(* recap.                                                                  *)
(***************************************************************************)
\* the summaries of the i-th contact's fetched threads, in fetch order, as
\* the returned record carries them
FetchedSummaries(i) ==
    [ j \in 1..Len(lastCycle.fetched[i].threads) |->
        ThreadOf(lastCycle.merged[i].threads,
                 lastCycle.fetched[i].threads[j].id).summary ]

\* the summaries of the previous record's threads that were not fetched
PreservedSummaries(i) ==
    IF ~HadRecord(i) THEN <<>>
    ELSE LET kept == SelectSeq(lastCycle.before[KeyOf(i)].threads,
                         LAMBDA th : th.id \notin FetchedIds(i)
                                     /\ th.summary # "")
         IN  [j \in 1..Len(kept) |-> kept[j].summary]

\* C29: within one contact the recap completion call comes after the
\* summarize_thread calls of all the threads fetched for it, and the
\* recap's input holds one summary for each of those threads.
C29_RecapAfterAllThreadSummaries ==
    \A i \in Contacts :
       Summarized(i) =>
          /\ Cardinality(CallsFor(i, "contact", "")) = 1
          /\ \A k \in CallsFor(i, "contact", ""), j \in CallsOfContact(i) :
                lastCycle.calls[j].kind = "thread" => j < k
          /\ lastCycle.merged[i].summary =
                run_groq_model("contact:" \o JoinTexts(FetchedSummaries(i)
                                                       \o PreservedSummaries(i)),
                               lastCycle.up)

\* a contact with two fetched threads, one of them summarized by the model
\* in this cycle, and a preserved one
C29_Witness ==
    /\ Summarized(1)
    /\ Len(lastCycle.fetched[1].threads) = 2
    /\ PreservedSummaries(1) # <<>>
    /\ \E k \in CallsOfContact(1) : lastCycle.calls[k].kind = "thread"

(***************************************************************************)
(* The loop across restarts of its process.  A new process constructs the  *)
(* summarizer, which reads the cache file as its per-thread cache, and     *)
(* then run_unified_agent loads the saved records of the same file; the    *)
(* cycles run once both are done.                                          *)
(***************************************************************************)
\* one cycle of the running loop, with the store working: list_threads
\* returns some of the mailbox's threads, newest first
CycleRunning ==
    /\ started = {"summarizer", "loop"}
    /\ lastCycle.n < MaxCycles
    /\ \E S \in SUBSET {tid \in ThreadIds : mailbox[tid] # <<>>} :
          SyncOn(ByRecency(S, mailbox),
                 from_gmail(ByRecency(S, mailbox), mailbox, now), TRUE, TRUE)

NextRestart ==
    \/ Receive
    \/ CycleRunning
    \/ Exit
    \/ StartSummarizer
    \/ LoadCache

SpecRestart == InitSync /\ [][NextRestart]_vars

(***************************************************************************)
(* The threads a cycle preserves: known before, not fetched now.           *)
(***************************************************************************)
PreservedIds(i) == PreviousIds(i) \ FetchedIds(i)

SameThreadFields(old, new) ==
    /\ new.summary = old.summary
    /\ new.subject = old.subject
    /\ new.importance = old.importance
    /\ new.last_message_ts = old.last_message_ts

\* C30: a thread that was in the contact's previous record and is not in
\* the current fetch has the same summary, subject, importance and
\* last_message_ts in the merged record as in the previous one, whether or
\* not the summarizer's cache still holds an entry for it.
C30_PreservedThreadKeepsItsFields ==
    \A i \in Contacts :
       Summarized(i) =>
          \A tid \in PreservedIds(i) :
             SameThreadFields(ThreadOf(lastCycle.before[KeyOf(i)].threads, tid),
                              ThreadOf(lastCycle.merged[i].threads, tid))

(***************************************************************************)
(* The classification summarize_thread stores with a thread's summary.     *)
(***************************************************************************)
\* the last call was a summarize_thread that stored an entry for the thread
StoredEntry ==
    /\ lastOp.op = "summarize_thread"
    /\ ~lastOp.raised
    /\ lastOp.calls = 1
    /\ lastOp.tid # ""

LatestOf(msgs) == msgs[Len(msgs)]

\* C31: for a thread with more than one message, the role and importance
\* summarize_thread stores in the thread's cache entry are the
\* classification of the thread's latest message.
C31_StoredClassificationIsOfLatestMessage ==
    (StoredEntry /\ Len(lastOp.msgs) > 1) =>
        /\ cache[LastOpKey].role =
              classify_email(LatestOf(lastOp.msgs).sender,
                             LatestOf(lastOp.msgs).subject,
                             LatestOf(lastOp.msgs).body).role
        /\ cache[LastOpKey].importance =
              classify_email(LatestOf(lastOp.msgs).sender,
                             LatestOf(lastOp.msgs).subject,
                             LatestOf(lastOp.msgs).body).importance

(***************************************************************************)
(* The writers of Summaries/summaries_cache.json: _save_cache writes the   *)
(* summarizer's dict, save_cache the loop's document.                      *)
(***************************************************************************)
\* the per-thread entries of a document that are not expired at time t
LiveEntries(doc, t) ==
    {k \in DOMAIN doc \ LoopKeys :
        doc[k].timestamp = NoValue \/ t - doc[k].timestamp <= TtlSeconds}

\* the contact records of a document
RecordsOf(doc) ==
    IF Has(doc, "summaries") THEN DOMAIN doc["summaries"] ELSE {}

\* C32: the summarizer's per-thread entries and the loop's contact records
\* do not destroy each other in the cache file: a step of one process that
\* rewrites the file keeps every unexpired per-thread entry, the top-level
\* keys summaries, seen and last_updated, and every contact record the
\* file held.
C32_WritersKeepEachOthersData ==
    [][ ( /\ files.cache.kind = "json"
          /\ files'.cache.kind = "json"
          /\ started \subseteq started' )
        => /\ LiveEntries(files.cache.data, now) \subseteq DOMAIN files'.cache.data
           /\ DOMAIN files.cache.data \cap LoopKeys \subseteq DOMAIN files'.cache.data
           /\ RecordsOf(files.cache.data) \subseteq RecordsOf(files'.cache.data) ]_vars

(***************************************************************************)
(* The shape of the summarizer's cache entries.                            *)
(***************************************************************************)
\* the last call was a summarize_thread answered from the cache
AnsweredFromCache ==
    /\ lastOp.op = "summarize_thread"
    /\ ~lastOp.raised
    /\ lastOp.calls = 0

\* C33: every entry of the summarizer cache has a summary and a timestamp
\* after any sequence of summarize_thread and summarize_contact_threads
\* calls, and a summarize_thread answered from the cache is answered from
\* an entry that has a summary.
C33_CacheEntriesAreComplete ==
    /\ \A k \in DOMAIN cache :
          cache[k].summary # Absent /\ cache[k].timestamp # NoValue
    /\ AnsweredFromCache => lastOp.before[LastOpKey].summary # Absent

(***************************************************************************)
(* A failed completion call and the cache.                                 *)
(***************************************************************************)
\* the last call was a summarize_thread whose completion call failed
CompletionFailed ==
    /\ lastOp.op = "summarize_thread"
    /\ lastOp.calls = 1
    /\ lastOp.value = FailureText

\* C34: when the completion call fails while a thread is summarized, no
\* cache entry is written for the thread, and no summarize_thread call is
\* answered from the cache with the failure text.
C34_FailureIsNotCached ==
    /\ (CompletionFailed /\ lastOp.tid # "") =>
           (Has(cache, LastOpKey) => cache[LastOpKey].summary # FailureText)
    /\ (lastOp.op = "summarize_thread" /\ lastOp.calls = 0) =>
           lastOp.value # FailureText

(***************************************************************************)
(* Summarizer/summarize_helper.py: summarize_contact_logic, and            *)
(* Gmail/gmail_connector.py: GmailConnector.fetch_threads, which the       *)
(* summarize_contact tool passes to it as fetch_fn.  A thread of the       *)
(* contact is [id, msgs].                                                  *)
(***************************************************************************)
HelperThread(tid, body) == [id |-> tid, msgs |-> <<Msg(body)>>]

\* the threads Gmail lists for the contact
ContactThreadLists ==
    { <<>>,
      <<HelperThread("t1", "registrar deadline")>>,
      <<HelperThread("t1", "registrar deadline"), HelperThread("t2", "newsletter")>>,
      <<HelperThread("t1", "newsletter"), HelperThread("t2", "newsletter"),
        HelperThread("t3", "registrar deadline")>> }

\* summarize_thread_logic with a text of more than 20 characters (lines
\* 12-43): [value, calls, cache]
summarize_thread_logic_text(c, source, contact_email, thread_id, text, force, t, up) ==
    LET g == get_from_cache(IF force
                            THEN clear_contact_cache(c, source, contact_email)
                            ELSE c,
                            source, contact_email, thread_id, t)
    IN  IF g.value # Absent /\ g.value # ""
        THEN [value |-> g.value, calls |-> 0, cache |-> g.cache]
        ELSE [ value |-> summarize_text(text, up), calls |-> 1,
               cache |-> set_cache(g.cache, source, contact_email, thread_id,
                                   summarize_text(text, up), t) ]

\* the loop of fetch_threads (lines 95-109) over the listed threads: with
\* auto, _auto_summarize_thread (lines 125-137) summarizes the thread's text
\* with force=True
RECURSIVE FetchLoop(_, _, _, _, _, _)
FetchLoop(acc, contact_email, threads, auto, t, up) ==
    IF threads = <<>> THEN acc
    ELSE LET th == Head(threads)
             r  == summarize_thread_logic_text(acc.cache, "gmail", contact_email,
                       th.id, JoinThread(th.msgs), TRUE, t, up)
         IN  FetchLoop([ value |-> Append(acc.value, th.msgs),
                         calls |-> acc.calls + (IF auto THEN r.calls ELSE 0),
                         cache |-> IF auto THEN r.cache ELSE acc.cache ],
                       contact_email, Tail(threads), auto, t, up)

\* fetch_threads(contact_email, auto): [value, calls, cache].  With auto it
\* ends in summarize_contact_logic with a fetch_fn of one parameter (lines
\* 112-115), which that function calls with two: the TypeError is caught
\* there and nothing is summarized
fetch_threads(c, contact_email, threads, auto, t, up) ==
    FetchLoop([value |-> <<>>, calls |-> 0, cache |-> c],
              contact_email, threads, auto, t, up)

\* f"{source}_thread_{i}", the id of a thread whose first message carries
\* neither conversationId nor threadId
GeneratedId(source, i) == source \o "_thread_" \o <<"1", "2", "3", "4">>[i]

\* the loop of summarize_contact_logic (lines 61-69) from the i-th fetched
\* thread on; the result s of summarize_thread_logic is dropped
RECURSIVE ContactLogicLoop(_, _, _, _, _, _, _, _)
ContactLogicLoop(acc, source, contact_email, fetched, i, force_refresh, t, up) ==
    IF i > Len(fetched) THEN acc
    ELSE LET s == summarize_thread_logic(acc.cache, source, contact_email,
                      GeneratedId(source, i), ThreadObj("list", fetched[i]),
                      force_refresh, t, up)
         IN  ContactLogicLoop([ thread_summaries |-> acc.thread_summaries,
                                calls |-> acc.calls + s.calls,
                                cache |-> s.cache ],
                              source, contact_email, fetched, i + 1,
                              force_refresh, t, up)

\* lines 71-83: summaries_texts is built of thread_summaries; the contact
\* summary is "" when it is empty
ContactLogicResult(fetched, acc, source, contact_email, force_refresh, t, up) ==
    [ thread_count     |-> Len(fetched),
      thread_summaries |-> acc.thread_summaries,
      contact_summary  |->
          IF acc.thread_summaries = <<>> THEN ""
          ELSE summarize_contact_threads(acc.cache, acc.thread_summaries,
                   source, contact_email, <<>>, force_refresh, t, up).entry.summary,
      calls |-> acc.calls + (IF acc.thread_summaries = <<>> THEN 0 ELSE 1),
      cache |-> IF acc.thread_summaries = <<>> THEN acc.cache
                ELSE summarize_contact_threads(acc.cache, acc.thread_summaries,
                         source, contact_email, <<>>, force_refresh, t, up).cache ]

\* summarize_contact_logic("gmail", contact_email, gmail.fetch_threads, top,
\* force_refresh): f is what fetch_fn(contact_email, top) did
ContactLogicAfterFetch(f, source, contact_email, force_refresh, t, up) ==
    ContactLogicResult(f.value,
        ContactLogicLoop([thread_summaries |-> <<>>, calls |-> f.calls,
                          cache |-> f.cache],
                         source, contact_email, f.value, 1, force_refresh, t, up),
        source, contact_email, force_refresh, t, up)

summarize_contact_logic(c, source, contact_email, threads, force_refresh, t, up) ==
    ContactLogicAfterFetch(fetch_threads(c, contact_email, threads, TRUE, t, up),
                           source, contact_email, force_refresh, t, up)

FetchEffect(threads, auto, r) ==
    /\ cache' = r.cache
    /\ lastOp' = [ op |-> "fetch_threads", source |-> "gmail",
                   contact |-> "a@x.com", threads |-> threads, auto |-> auto,
                   at |-> now, value |-> r.value, calls |-> r.calls,
                   before |-> cache ]

CallFetchThreads ==
    /\ \E threads \in ContactThreadLists, auto \in BOOLEAN :
          FetchEffect(threads, auto,
              fetch_threads(cache, "a@x.com", threads, auto, now, modelUp))
    /\ UNCHANGED <<sheetVars, fileVars, now, modelUp, aggVars>>

ContactLogicEffect(threads, force_refresh, r) ==
    /\ cache' = r.cache
    /\ lastOp' = [ op |-> "summarize_contact_logic", source |-> "gmail",
                   contact |-> "a@x.com", threads |-> threads,
                   force |-> force_refresh, at |-> now, value |-> r,
                   calls |-> r.calls, before |-> cache ]

CallSummarizeContactLogic ==
    /\ \E threads \in ContactThreadLists, force_refresh \in BOOLEAN :
          ContactLogicEffect(threads, force_refresh,
              summarize_contact_logic(cache, "gmail", "a@x.com", threads,
                                      force_refresh, now, modelUp))
    /\ UNCHANGED <<sheetVars, fileVars, now, modelUp, aggVars>>

NextHelper ==
    \/ CallFetchThreads
    \/ CallSummarizeContactLogic
    \/ Tick

SpecHelper == InitCache /\ [][NextHelper]_vars

\* the keys under which the last call summarized the contact's threads
LastThreadKeys ==
    IF lastOp.op = "fetch_threads"
    THEN {get_cache_key("gmail", lastOp.contact, lastOp.threads[i].id) :
             i \in 1..Len(lastOp.threads)}
    ELSE {get_cache_key("gmail", lastOp.contact, GeneratedId("gmail", i)) :
             i \in 1..Len(lastOp.threads)}

ForceRefreshed ==
    \/ lastOp.op = "fetch_threads" /\ lastOp.auto
    \/ lastOp.op = "summarize_contact_logic" /\ lastOp.force

\* C35: after a force-refresh of a contact with two or more threads
\* (summarize_contact_logic with force_refresh=True, or fetch_threads with
\* auto=True) the cache holds a summary entry for each of the contact's
\* threads.
C35_ForceRefreshKeepsEveryThread ==
    (ForceRefreshed /\ Len(lastOp.threads) >= 2) =>
        \A k \in LastThreadKeys : Has(cache, k) /\ cache[k].summary # Absent

\* C36: summarize_contact_logic returns one thread summary per fetched
\* thread, and a contact summary made of them when a thread was
\* summarized.
C36_OneSummaryPerThread ==
    lastOp.op = "summarize_contact_logic" =>
        /\ Len(lastOp.value.thread_summaries) = lastOp.value.thread_count
        /\ (lastOp.value.thread_count > 0 => lastOp.value.contact_summary # "")

(***************************************************************************)
(* The records of contacts a cycle does not fetch.                         *)
(***************************************************************************)
\* the record keys of the contacts a fetch returned
KeysOfFetch(all_data) ==
    {all_data[i].source \o ":" \o all_data[i].email : i \in 1..Len(all_data)}

\* the cache file written by a cycle that reached the given point holds the
\* record rec under key k: save_cache writes the summaries as a dict, the
\* provider as the list of the cycle's records
SavedHolds(file, reached, k, rec) ==
    /\ file.kind = "json"
    /\ Has(file.data, "summaries")
    /\ IF reached = "sync"
       THEN Has(file.data["summaries"], k) /\ file.data["summaries"][k] = rec
       ELSE \E i \in 1..Len(file.data["summaries"]) :
               file.data["summaries"][i] = rec

\* C37: a contact record of the loop's cache whose contact is absent from
\* the cycle's fetch is still present, unchanged, in cache["summaries"]
\* and in the saved cache after the cycle.
C37_UnfetchedRecordIsKept ==
    [][ lastCycle'.n = lastCycle.n + 1 =>
          \A k \in DOMAIN records \ KeysOfFetch(lastCycle'.fetched) :
             /\ Has(records', k)
             /\ records'[k] = records[k]
             /\ IF lastCycle'.reached \in {"sync", "empty"}
                THEN SavedHolds(files'.cache, lastCycle'.reached, k, records[k])
                ELSE files'.cache = files.cache ]_vars

\* C38: no completion call for a reply is made for a fetched thread when the
\* queue already holds a draft of the same contact and thread in
\* pending_review, approved or sent at the same or a later last_message_ts.
C38_NoReplyCallForDuplicate ==
    CycleDone =>
      \A i \in Contacts : \A tid \in FetchedIds(i) :
         has_recent_draft(lastCycle.draftsBefore, tid,
                          ThreadOf(lastCycle.fetched[i].threads, tid).last_message_ts,
                          {"pending_review", "approved", "sent"}, KeyOf(i))
            => CallsFor(i, "reply", tid) = {}

\* the deduplication keys of the rows the last call was given
IncomingKeys ==
    { RowKey(NormalizeRowPayload(lastUpsert.rows[j], lastUpsert.at)) :
         j \in 1..Len(lastUpsert.rows) }

\* the key of a data row as the worksheet stores it
StoredKey(cells, i) == RowKey(NormalizeRowPayload(GetAllRecords(cells)[i], 0))

\* C39: after a call of upsert_summaries, every data row the worksheet held
\* before the call under a key that is not among the incoming rows is still
\* a data row of the worksheet, with the same content, also when reading the
\* existing rows failed.
C39_OtherRowsAreKept ==
    upsertCalls > 0 =>
      \A i \in 1..Len(lastUpsert.before) :
         (/\ StoredKey(lastUpsert.before, i) # ""
          /\ StoredKey(lastUpsert.before, i) \notin IncomingKeys)
            => \E j \in 1..Len(sheet) : sheet[j] = lastUpsert.before[i]

(***************************************************************************)
(* Two polling cycles over a mailbox that does not change: thread t1 of    *)
(* contact a and thread t2 of contact b hold one message each, whose Date  *)
(* header is valid, missing or unreadable.                                 *)
(***************************************************************************)
Dates == {1, NoValue, UnparseableDate}

InitDates ==
    /\ sheet = <<>>
    /\ now = 2
    /\ upsertCalls = 0
    /\ lastUpsert = NoUpsert
    /\ FilesIdle
    /\ cache = NoKeys
    /\ modelUp = TRUE
    /\ lastOp = NoOp
    /\ \E da \in Dates, db \in Dates :
          mailbox = [tid \in ThreadIds |->
                        IF tid = "t1" THEN <<MailMsg("registrar deadline", da)>>
                        ELSE IF tid = "t2" THEN <<MsgOfB("b@y.org", db)>>
                        ELSE <<>>]
    /\ records = NoKeys
    /\ drafts = <<>>
    /\ lastCycle = NoCycle

NextDates ==
    \/ Tick
    \/ CycleAny

SpecDates == InitDates /\ [][NextDates]_vars

\* the contact `key` as the cycle's fetch returned it
FetchedOf(cycle, key) ==
    { cycle.fetched[i] :
        i \in {i \in 1..Len(cycle.fetched) :
                  cycle.fetched[i].source \o ":" \o cycle.fetched[i].email = key} }

\* the last_message_ts the cycle's fetch gave thread tid of the contact
TimestampsOf(cycle, key, tid) ==
    UNION { { c.threads[j].last_message_ts :
                 j \in {j \in 1..Len(c.threads) : c.threads[j].id = tid} } :
            c \in FetchedOf(cycle, key) }

\* C40: when two consecutive cycles fetch a thread with the same messages,
\* the thread's normalized last_message_ts is the same in both, a missing
\* or unreadable date included, and a contact whose fetched threads were
\* all fetched the cycle before is reused, not summarized again.
C40_SameDataSameTimestamp ==
    [][ (lastCycle.n > 0 /\ lastCycle'.n = lastCycle.n + 1 /\ mailbox' = mailbox) =>
          \A key \in KeysOfFetch(lastCycle'.fetched) :
             /\ \A tid \in ThreadIds :
                   (/\ TimestampsOf(lastCycle, key, tid) # {}
                    /\ TimestampsOf(lastCycle', key, tid) # {})
                      => TimestampsOf(lastCycle', key, tid)
                            = TimestampsOf(lastCycle, key, tid)
             /\ (/\ ~lastCycle.raised
                 /\ \A tid \in ThreadIds :
                       TimestampsOf(lastCycle', key, tid) # {}
                          => TimestampsOf(lastCycle, key, tid) # {})
                   => key \in lastCycle'.reused ]_vars

====
